---- MODULE Spec2Model ----
(***************************************************************************)
(* Model of stepmom_tv: the coordinator ("brain", video_player_brain.py)   *)
(* that tracks nodes by heartbeat, dispatches play commands over MQTT and  *)
(* aggregates acknowledgments, and the playback node (video_player_client) *)
(* that arbitrates between its loop player and its manual player.          *)
(*                                                                         *)
(* Time is the coordinator's time.time(), in whole seconds. Payloads are   *)
(* modelled after str.split: a message is the sequence of its fields.      *)
(***************************************************************************)
EXTENDS Integers, Sequences, FiniteSets, TLC

(* ---- program constants (video_player_brain.py) ---- *)
HEARTBEAT_TIMEOUT == 10
ACK_TIMEOUT == 5
MAX_RETRY_ATTEMPTS == 3
DELAY == 4
CLEAR_RETAINED_DELAY == 2
SWEEP_ERROR_DELAY == 5

(* ---- bounds of the model ---- *)
MaxTime == 20
NumVideos == 1
TimeStep == 5
MaxDispatchTime == 4
MaxSweepTime == 30
MaxSkew == 2
MaxHeartbeats == 2

(* uuid.getnode() of the nodes on the bus, the uuid4 values the coordinator
   draws, in order, and the command ids a message on the bus can carry *)
CLIENT_IDS == {"pi1", "pi2"}
UUIDS == <<"u1">>
NoCommand == "none"
CommandIds == {"u1", "u2"}
ACK_STATUSES == {"success", "error"}

VARIABLES
    now,                 \* time.time() on the coordinator
    clients_last_seen,   \* VideoControlSystem.clients_last_seen
    pending_commands,    \* VideoControlSystem.pending_commands
    uuid_pool,           \* the values uuid.uuid4() has yet to return, in order
    api,                 \* the /api/play request being served
    play_published,      \* per command: messages the broker accepted on video/play
    retained,            \* the broker's retained message on video/play
    clear_threads,       \* wake-up times of the running clear_retained threads
    clients_cleanup_at,  \* wake-up time of cleanup_inactive_clients
    commands_cleanup_at, \* wake-up time of cleanup_old_commands
    issued_to,           \* history: the nodes in the table when a command was stored
    ack_senders,         \* history: the nodes whose ack was ingested, per command
    late_acks,           \* history: the reaped commands an ack has named since
    sweep,               \* where cleanup_inactive_clients is, and its inactive_clients
    command_lock,        \* the holder of VideoControlSystem.command_lock
    status_query,        \* the get_command_status call in progress
    manual_mode,         \* VideoClient.manual_mode
    loop_pause_event,    \* VideoClient.loop_pause_event is set
    active_player,       \* VideoClient.active_player: "loop" or "manual"
    playback_control_lock, \* the thread holding VideoClient.playback_control_lock
    players,             \* what the two VLC players are doing
    manual_media,        \* the command whose media the manual player holds
    connected,           \* VideoClient.connected
    loop_thread,         \* where the loop thread is
    play_threads,        \* the play_video threads started by on_message
    clock_skew,          \* the coordinator's time.time() minus the node's
    heartbeat_threads,   \* how many send_heartbeat threads are at each step
    node_published,      \* history: the topics the node has published on
    time_response,       \* history: the first coordinator time delivered to the
                         \* node, and the node's time.time() at its delivery
    sync_wait,           \* the synchronization step of play_video in progress
    state_lock,          \* the thread holding VideoClient.state_lock
    current_state,       \* VideoClient.current_state
    status_call          \* the get_status call of the heartbeat thread

brainVars == <<now, clients_last_seen, pending_commands, uuid_pool, api,
               play_published, retained, clear_threads, clients_cleanup_at,
               commands_cleanup_at, issued_to, ack_senders, late_acks,
               sweep, command_lock, status_query>>

syncVars == <<clock_skew, heartbeat_threads, node_published, time_response,
              sync_wait>>

lockVars == <<state_lock, current_state, status_call>>

nodeVars == <<manual_mode, loop_pause_event, active_player,
              playback_control_lock, players, manual_media, connected,
              loop_thread, play_threads, syncVars, lockVars>>

vars == <<brainVars, nodeVars>>

Min(S) == CHOOSE x \in S : \A y \in S : x <= y

(* dict item assignment d[k] = v *)
DictSet(d, k, v) == [x \in (DOMAIN d) \cup {k} |-> IF x = k THEN v ELSE d[x]]

(* dict with the keys in ks deleted *)
DictDel(d, ks) == [x \in (DOMAIN d) \ ks |-> d[x]]

(* no play_video thread is at its synchronization step *)
NoWait == [pc |-> "idle", start_time |-> 0, wait_seconds |-> 0, sleeps |-> FALSE]

(* no send_heartbeat thread is running *)
NoHeartbeats == [publish |-> 0, sleep |-> 0]

(* no get_status call in progress *)
NoStatusCall == [pc |-> "idle"]

(* no get_command_status call in progress *)
IdleStatus == [pc |-> "idle", command_id |-> NoCommand, success_count |-> 0,
               error_count |-> 0, result |-> [found |-> FALSE]]

(* cleanup_inactive_clients asleep between two passes *)
IdleSweep == [pc |-> "sleep", keys |-> {}, inactive_clients |-> {}]

IdleApi == [pc |-> "idle", video_index |-> 0, command_id |-> NoCommand,
            response |-> "none", rcs |-> <<>>]

(* ------------------------------------------------------------------ *)
(* Membership                                                          *)
(* ------------------------------------------------------------------ *)

(* handle_heartbeat: clients_last_seen[client_id] = time.time() *)
HandleHeartbeat(client_id) ==
    /\ clients_last_seen' = DictSet(clients_last_seen, client_id, now)
    /\ UNCHANGED <<now, pending_commands, uuid_pool, api, play_published,
                   retained, clear_threads, clients_cleanup_at,
                   commands_cleanup_at, issued_to, ack_senders>>
    /\ UNCHANGED <<late_acks, sweep, command_lock, status_query, nodeVars>>

(* mutant: the sweep waits for two timeouts *)
InactiveClientsAfterTwo ==
    {c \in DOMAIN clients_last_seen :
        now - clients_last_seen[c] > 2 * HEARTBEAT_TIMEOUT}

(* the clients one pass of cleanup_inactive_clients deletes *)
InactiveClients ==
    {c \in DOMAIN clients_last_seen : now - clients_last_seen[c] > HEARTBEAT_TIMEOUT}

(* one pass of cleanup_inactive_clients, then time.sleep(HEARTBEAT_TIMEOUT) *)
CleanupInactiveClients ==
    /\ now >= clients_cleanup_at
    /\ clients_last_seen' = DictDel(clients_last_seen, InactiveClients)
    /\ clients_cleanup_at' = now + HEARTBEAT_TIMEOUT
    /\ UNCHANGED <<now, pending_commands, uuid_pool, api, play_published,
                   retained, clear_threads, commands_cleanup_at, issued_to,
                   ack_senders>>
    /\ UNCHANGED <<late_acks, sweep, command_lock, status_query, nodeVars>>

(* cleanup_inactive_clients, step by step: it holds no lock, so
   handle_heartbeat (the MQTT thread) runs between any two of its steps.
   The pass starts: now = time.time() and the iterator over
   clients_last_seen.items() is created *)
SweepScanBegin ==
    /\ sweep.pc = "sleep"
    /\ now >= clients_cleanup_at
    /\ sweep' = [pc |-> "scan", keys |-> DOMAIN clients_last_seen,
                 inactive_clients |-> {}]
    /\ UNCHANGED <<now, clients_last_seen, pending_commands, uuid_pool, api,
                   play_published, retained, clear_threads, clients_cleanup_at,
                   commands_cleanup_at, issued_to, ack_senders, late_acks>>
    /\ UNCHANGED <<command_lock, status_query, nodeVars>>

(* the list comprehension runs over the iterator: a dict that changed size
   since the iterator was created raises RuntimeError, which the except
   clause catches; else inactive_clients is the list of the stale ids *)
SweepScanEnd ==
    /\ sweep.pc = "scan"
    /\ sweep' = IF DOMAIN clients_last_seen # sweep.keys
                THEN [sweep EXCEPT !.pc = "failed"]
                ELSE [sweep EXCEPT !.pc = "delete",
                                   !.inactive_clients = InactiveClients]
    /\ UNCHANGED <<now, clients_last_seen, pending_commands, uuid_pool, api,
                   play_published, retained, clear_threads, clients_cleanup_at,
                   commands_cleanup_at, issued_to, ack_senders, late_acks>>
    /\ UNCHANGED <<command_lock, status_query, nodeVars>>

(* for client_id in inactive_clients: del self.clients_last_seen[client_id];
   the entry is deleted whatever it holds by now (the order of the dict is
   not tracked, any id of the list can be the next) *)
SweepDelete(client_id) ==
    /\ sweep.pc = "delete"
    /\ client_id \in sweep.inactive_clients
    /\ clients_last_seen' = DictDel(clients_last_seen, {client_id})
    /\ sweep' = [sweep EXCEPT !.inactive_clients = @ \ {client_id}]
    /\ UNCHANGED <<now, pending_commands, uuid_pool, api, play_published,
                   retained, clear_threads, clients_cleanup_at,
                   commands_cleanup_at, issued_to, ack_senders, late_acks>>
    /\ UNCHANGED <<command_lock, status_query, nodeVars>>

(* the list is done: time.sleep(HEARTBEAT_TIMEOUT) *)
SweepSleep ==
    /\ sweep.pc = "delete"
    /\ sweep.inactive_clients = {}
    /\ sweep' = IdleSweep
    /\ clients_cleanup_at' = now + HEARTBEAT_TIMEOUT
    /\ UNCHANGED <<now, clients_last_seen, pending_commands, uuid_pool, api,
                   play_published, retained, clear_threads,
                   commands_cleanup_at, issued_to, ack_senders, late_acks>>
    /\ UNCHANGED <<command_lock, status_query, nodeVars>>

(* except Exception: the error is logged, time.sleep(5) *)
SweepRecover ==
    /\ sweep.pc = "failed"
    /\ sweep' = IdleSweep
    /\ clients_cleanup_at' = now + SWEEP_ERROR_DELAY
    /\ UNCHANGED <<now, clients_last_seen, pending_commands, uuid_pool, api,
                   play_published, retained, clear_threads,
                   commands_cleanup_at, issued_to, ack_senders, late_acks>>
    /\ UNCHANGED <<command_lock, status_query, nodeVars>>

(* api_clients_count: len(self.clients_last_seen) *)
ApiClientsCount == Cardinality(DOMAIN clients_last_seen)

(* ------------------------------------------------------------------ *)
(* Acknowledgments                                                     *)
(* ------------------------------------------------------------------ *)

(* payloads on video/ack after payload.split(":"): the node sends
   CLIENT_ID:command_id:status:message, and the message of an error may
   itself hold a colon; a payload of two fields is malformed *)
AckPayloads ==
    {<<c, u, s>> : c \in CLIENT_IDS, u \in CommandIds, s \in ACK_STATUSES}
    \cup {<<c, u, s, "Playing a.mp4">> : c \in CLIENT_IDS, u \in CommandIds, s \in {"success"}}
    \cup {<<c, u, s, "Video file not found", " /media/usb/a.mp4">> :
              c \in CLIENT_IDS, u \in CommandIds, s \in {"error"}}
    \cup {<<c, u>> : c \in CLIENT_IDS, u \in CommandIds}

(* payloads on video/ack as any publisher on the bus can send them: the
   node's payloads, and a payload whose third field is not one of the
   node's two statuses ("pi1:u1:" splits into three fields, the last empty) *)
BusAckPayloads ==
    AckPayloads \cup {<<c, u, "">> : c \in CLIENT_IDS, u \in CommandIds}

(* mutant: acks kept as a list, every delivery appended under a new key *)
AckKeyAppend(acks, client_id) == ToString(Cardinality(DOMAIN acks))

(* the key under which an ack is stored in the command's acks dict *)
AckKey(acks, client_id) == client_id

(* mutant: the ack handler recounts the expected responders *)
StoreAckRecount(cmd, client_id, status) ==
    [cmd EXCEPT !.acks = DictSet(cmd.acks, AckKey(cmd.acks, client_id),
                                 [status |-> status]),
                !.expected_clients = Cardinality(DOMAIN clients_last_seen)]

(* pending_commands[command_id]["acks"][client_id] = {"status": status, ...} *)
StoreAck(cmd, client_id, status) ==
    [cmd EXCEPT !.acks = DictSet(cmd.acks, AckKey(cmd.acks, client_id),
                                 [status |-> status])]

(* history: the commands that were stored once and have been reaped;
   play_published keeps an entry for every command ever stored *)
ReapedCommands == (DOMAIN play_published) \ (DOMAIN pending_commands)

(* mutant: an ack for a command that is not in the table creates its record *)
HandleAcknowledgmentUpsert(parts) ==
    /\ IF Len(parts) >= 3
       THEN /\ pending_commands' =
                   IF parts[2] \in DOMAIN pending_commands
                   THEN [pending_commands EXCEPT
                            ![parts[2]] = StoreAck(@, parts[1], parts[3])]
                   ELSE DictSet(pending_commands, parts[2],
                                StoreAck([video_index |-> 0, start_time |-> now,
                                          timestamp |-> now, expected_clients |-> 0,
                                          acks |-> <<>>], parts[1], parts[3]))
            /\ ack_senders' =
                   IF parts[2] \in DOMAIN ack_senders
                   THEN [ack_senders EXCEPT ![parts[2]] = @ \cup {parts[1]}]
                   ELSE DictSet(ack_senders, parts[2], {parts[1]})
            /\ issued_to' =
                   IF parts[2] \in DOMAIN issued_to THEN issued_to
                   ELSE DictSet(issued_to, parts[2], {})
            /\ late_acks' = late_acks \cup ({parts[2]} \cap ReapedCommands)
       ELSE UNCHANGED <<pending_commands, ack_senders, issued_to, late_acks>>
    /\ UNCHANGED <<now, clients_last_seen, uuid_pool, api, play_published,
                   retained, clear_threads, clients_cleanup_at,
                   commands_cleanup_at>>
    /\ UNCHANGED <<sweep, command_lock, status_query, nodeVars>>

(* handle_acknowledgment(payload) *)
HandleAcknowledgment(parts) ==
    /\ IF Len(parts) >= 3 /\ parts[2] \in DOMAIN pending_commands
       THEN /\ pending_commands' =
                   [pending_commands EXCEPT
                       ![parts[2]] = StoreAck(@, parts[1], parts[3])]
            /\ ack_senders' =
                   [ack_senders EXCEPT ![parts[2]] = @ \cup {parts[1]}]
            /\ UNCHANGED late_acks
       ELSE /\ UNCHANGED <<pending_commands, ack_senders>>
            /\ late_acks' = late_acks \cup
                   (IF Len(parts) >= 3 THEN {parts[2]} \cap ReapedCommands ELSE {})
    /\ UNCHANGED <<now, clients_last_seen, uuid_pool, api, play_published,
                   retained, clear_threads, clients_cleanup_at,
                   commands_cleanup_at, issued_to>>
    /\ UNCHANGED <<sweep, command_lock, status_query, nodeVars>>

(* mutant: the timeout counts from ACK_TIMEOUT on, not after it *)
CompletedAtTimeout(total_responses, expected_clients, time_elapsed) ==
    (total_responses >= expected_clients) \/ (time_elapsed >= ACK_TIMEOUT)

(* mutant: completion by quorum alone *)
CompletedByQuorumOnly(total_responses, expected_clients, time_elapsed) ==
    total_responses >= expected_clients

(* get_command_status: completed = (total_responses >= expected_clients)
   or (time_elapsed > ACK_TIMEOUT) *)
Completed(total_responses, expected_clients, time_elapsed) ==
    (total_responses >= expected_clients) \/ (time_elapsed > ACK_TIMEOUT)

(* mutant: only the success acks are counted as responses *)
TotalResponsesSuccessOnly(acks) ==
    Cardinality({k \in DOMAIN acks : acks[k].status = "success"})

(* get_command_status: total_responses = len(acks) *)
TotalResponses(acks) == Cardinality(DOMAIN acks)

(* get_command_status(command_id); None is the record with found = FALSE *)
GetCommandStatus(command_id) ==
    IF command_id \notin DOMAIN pending_commands
    THEN [found |-> FALSE]
    ELSE LET cmd_data == pending_commands[command_id]
             acks == cmd_data.acks
             success_count == Cardinality({k \in DOMAIN acks : acks[k].status = "success"})
             error_count == Cardinality({k \in DOMAIN acks : acks[k].status = "error"})
             total_responses == TotalResponses(acks)
             expected_clients == cmd_data.expected_clients
             time_elapsed == now - cmd_data.timestamp
         IN [found |-> TRUE,
             completed |-> Completed(total_responses, expected_clients, time_elapsed),
             success_count |-> success_count,
             error_count |-> error_count,
             total_responses |-> total_responses,
             expected_clients |-> expected_clients,
             time_elapsed |-> time_elapsed]

(* get_command_status, step by step. It takes command_lock; an unknown id
   returns None at once, else cmd_data and acks are bound *)
StatusBegin(command_id) ==
    /\ status_query.pc = "idle"
    /\ command_lock = "free"
    /\ IF command_id \notin DOMAIN pending_commands
       THEN /\ status_query' = [IdleStatus EXCEPT !.pc = "done",
                                                  !.command_id = command_id]
            /\ UNCHANGED command_lock
       ELSE /\ status_query' = [IdleStatus EXCEPT !.pc = "success_count",
                                                  !.command_id = command_id]
            /\ command_lock' = "status"
    /\ UNCHANGED <<now, clients_last_seen, pending_commands, uuid_pool, api,
                   play_published, retained, clear_threads, clients_cleanup_at,
                   commands_cleanup_at, issued_to, ack_senders, late_acks, sweep>>
    /\ UNCHANGED nodeVars

(* success_count = sum(1 for ack in acks.values() if ack["status"] == "success") *)
StatusSuccessCount ==
    /\ status_query.pc = "success_count"
    /\ status_query' =
           [status_query EXCEPT
               !.pc = "error_count",
               !.success_count = GetCommandStatus(status_query.command_id).success_count]
    /\ UNCHANGED <<now, clients_last_seen, pending_commands, uuid_pool, api,
                   play_published, retained, clear_threads, clients_cleanup_at,
                   commands_cleanup_at, issued_to, ack_senders, late_acks, sweep>>
    /\ UNCHANGED <<command_lock, nodeVars>>

(* error_count = sum(1 for ack in acks.values() if ack["status"] == "error") *)
StatusErrorCount ==
    /\ status_query.pc = "error_count"
    /\ status_query' =
           [status_query EXCEPT
               !.pc = "total_responses",
               !.error_count = GetCommandStatus(status_query.command_id).error_count]
    /\ UNCHANGED <<now, clients_last_seen, pending_commands, uuid_pool, api,
                   play_published, retained, clear_threads, clients_cleanup_at,
                   commands_cleanup_at, issued_to, ack_senders, late_acks, sweep>>
    /\ UNCHANGED <<command_lock, nodeVars>>

(* total_responses = len(acks) and the rest of the status; the dict is
   returned and command_lock released *)
StatusReturn ==
    /\ status_query.pc = "total_responses"
    /\ status_query' =
           [status_query EXCEPT
               !.pc = "done",
               !.result = [GetCommandStatus(status_query.command_id) EXCEPT
                              !.success_count = status_query.success_count,
                              !.error_count = status_query.error_count]]
    /\ command_lock' = "free"
    /\ UNCHANGED <<now, clients_last_seen, pending_commands, uuid_pool, api,
                   play_published, retained, clear_threads, clients_cleanup_at,
                   commands_cleanup_at, issued_to, ack_senders, late_acks, sweep>>
    /\ UNCHANGED nodeVars

(* api_command_status answers: jsonify(status), or 404 for None *)
StatusAnswer ==
    /\ status_query.pc = "done"
    /\ status_query' = IdleStatus
    /\ UNCHANGED <<now, clients_last_seen, pending_commands, uuid_pool, api,
                   play_published, retained, clear_threads, clients_cleanup_at,
                   commands_cleanup_at, issued_to, ack_senders, late_acks, sweep>>
    /\ UNCHANGED <<command_lock, nodeVars>>

(* mutant: the ack is stored without taking command_lock *)
AckUnlocked(parts) == HandleAcknowledgment(parts)

(* handle_acknowledgment: with self.command_lock *)
AckLocked(parts) == command_lock = "free" /\ HandleAcknowledgment(parts)

(* mutant: the reaper waits for three timeouts *)
ExpiredCommandsAfterThree ==
    {c \in DOMAIN pending_commands :
        now - pending_commands[c].timestamp > ACK_TIMEOUT * 3}

(* mutant: the reaper deletes a command as soon as time has passed *)
ExpiredCommandsAtOnce ==
    {c \in DOMAIN pending_commands : now - pending_commands[c].timestamp > 0}

(* the commands one pass of cleanup_old_commands deletes *)
ExpiredCommands ==
    {c \in DOMAIN pending_commands :
        now - pending_commands[c].timestamp > ACK_TIMEOUT * 2}

(* one pass of cleanup_old_commands, then time.sleep(ACK_TIMEOUT) *)
CleanupOldCommands ==
    /\ now >= commands_cleanup_at
    /\ pending_commands' = DictDel(pending_commands, ExpiredCommands)
    /\ issued_to' = DictDel(issued_to, ExpiredCommands)
    /\ ack_senders' = DictDel(ack_senders, ExpiredCommands)
    /\ commands_cleanup_at' = now + ACK_TIMEOUT
    /\ UNCHANGED <<now, clients_last_seen, uuid_pool, api, play_published,
                   retained, clear_threads, clients_cleanup_at>>
    /\ UNCHANGED <<late_acks, sweep, command_lock, status_query, nodeVars>>

(* ------------------------------------------------------------------ *)
(* Dispatch                                                            *)
(* ------------------------------------------------------------------ *)

(* mutant: the lower bound of the index check is missing *)
ValidIndexNoLowerBound(video_index) == video_index < NumVideos

(* 0 <= video_index < len(self.video_files) *)
ValidIndex(video_index) == 0 <= video_index /\ video_index < NumVideos

(* the results mqtt_client.publish can report for the attempts of one
   publish_with_retry call: TRUE is rc == MQTT_ERR_SUCCESS *)
PublishResults == [1..MAX_RETRY_ATTEMPTS -> BOOLEAN]

(* mutant: no retry, the first attempt decides *)
PublishWithoutRetry(rcs) == rcs[1]

(* publish_with_retry: returns True at the first attempt that succeeds and
   False after MAX_RETRY_ATTEMPTS failures *)
PublishWithRetry(rcs) == \E attempt \in 1..MAX_RETRY_ATTEMPTS : rcs[attempt]

(* mutant: the loop goes on after a success, every attempt publishes *)
PublishedByEveryAttempt(rcs) ==
    Cardinality({attempt \in 1..MAX_RETRY_ATTEMPTS : rcs[attempt]})

(* the number of messages one publish_with_retry call hands to the broker:
   it returns at the first success, and a failed attempt publishes nothing *)
PublishedBy(rcs) == IF PublishWithRetry(rcs) THEN 1 ELSE 0

(* message = f"{video_index},{start_time},{command_id}", as its fields *)
PlayMessage(video_index, start_time, command_id) ==
    <<video_index, start_time, command_id>>

(* the record send_video_command stores *)
NewCommand(video_index) ==
    [video_index |-> video_index,
     start_time |-> now + DELAY,
     timestamp |-> now,
     expected_clients |-> Cardinality(DOMAIN clients_last_seen),
     acks |-> <<>>]

NoPublish == [live |-> 0, retain |-> 0]

(* api_play up to its call of send_video_command *)
ApiPlay(video_index) ==
    /\ api.pc = "idle"
    /\ uuid_pool # <<>>
    /\ api' = IF ~ValidIndex(video_index)
              THEN [IdleApi EXCEPT !.pc = "done", !.video_index = video_index,
                                   !.response = "Invalid video index"]
              ELSE IF DOMAIN clients_last_seen = {}
              THEN [IdleApi EXCEPT !.pc = "done", !.video_index = video_index,
                                   !.response = "No clients connected"]
              ELSE [IdleApi EXCEPT !.pc = "send_video_command",
                                   !.video_index = video_index]
    /\ UNCHANGED <<now, clients_last_seen, pending_commands, uuid_pool,
                   play_published, retained, clear_threads, clients_cleanup_at,
                   commands_cleanup_at, issued_to, ack_senders>>
    /\ UNCHANGED <<late_acks, sweep, command_lock, status_query, nodeVars>>

(* send_video_command up to the release of command_lock: the index check,
   uuid4, and the stored record *)
SendVideoCommandStore ==
    /\ api.pc = "send_video_command"
    /\ IF ~ValidIndex(api.video_index)
       THEN /\ api' = [api EXCEPT !.pc = "done", !.response = "Failed to send command"]
            /\ UNCHANGED <<pending_commands, uuid_pool, issued_to, ack_senders,
                           play_published>>
       ELSE LET command_id == Head(uuid_pool) IN
            /\ pending_commands' =
                   DictSet(pending_commands, command_id, NewCommand(api.video_index))
            /\ issued_to' = DictSet(issued_to, command_id, DOMAIN clients_last_seen)
            /\ ack_senders' = DictSet(ack_senders, command_id, {})
            /\ play_published' = DictSet(play_published, command_id, NoPublish)
            /\ uuid_pool' = Tail(uuid_pool)
            /\ api' = [api EXCEPT !.pc = "publish", !.command_id = command_id]
    /\ UNCHANGED <<now, clients_last_seen, retained, clear_threads,
                   clients_cleanup_at, commands_cleanup_at>>
    /\ UNCHANGED <<late_acks, sweep, command_lock, status_query, nodeVars>>

(* send_video_command from the message to its return, and api_play's answer:
   the live publish, then on success the retained publish and the start of
   the clear_retained thread *)
SendVideoCommandPublish(rcs, rcs_retain) ==
    /\ api.pc = "publish"
    /\ LET command_id == api.command_id
           message == PlayMessage(api.video_index, now + DELAY, command_id)
           success == PublishWithRetry(rcs)
       IN  IF success
           THEN /\ play_published' =
                       [play_published EXCEPT
                           ![command_id].live = @ + PublishedBy(rcs),
                           ![command_id].retain = @ + PublishedBy(rcs_retain)]
                /\ retained' = IF PublishWithRetry(rcs_retain) THEN message ELSE retained
                /\ clear_threads' = clear_threads \cup
                       {[command_id |-> command_id,
                         wake_at |-> now + CLEAR_RETAINED_DELAY]}
                /\ api' = [api EXCEPT !.pc = "done", !.response = "success", !.rcs = rcs]
           ELSE /\ api' = [api EXCEPT !.pc = "done",
                                      !.response = "Failed to send command",
                                      !.rcs = rcs]
                /\ UNCHANGED <<play_published, retained, clear_threads>>
    /\ UNCHANGED <<now, clients_last_seen, pending_commands, uuid_pool,
                   clients_cleanup_at, commands_cleanup_at, issued_to, ack_senders>>
    /\ UNCHANGED <<late_acks, sweep, command_lock, status_query, nodeVars>>

(* the HTTP response leaves; the next request can be served *)
ApiReturn ==
    /\ api.pc = "done"
    /\ api' = IdleApi
    /\ UNCHANGED <<now, clients_last_seen, pending_commands, uuid_pool,
                   play_published, retained, clear_threads, clients_cleanup_at,
                   commands_cleanup_at, issued_to, ack_senders>>
    /\ UNCHANGED <<late_acks, sweep, command_lock, status_query, nodeVars>>

(* clear_retained, after its time.sleep(2.0):
   publish_with_retry(MQTT_TOPIC_PLAY, "", retain=True) *)
ClearRetained(thread, rcs) ==
    /\ thread \in clear_threads
    /\ now >= thread.wake_at
    /\ retained' = IF PublishWithRetry(rcs) THEN <<>> ELSE retained
    /\ clear_threads' = clear_threads \ {thread}
    /\ UNCHANGED <<now, clients_last_seen, pending_commands, uuid_pool, api,
                   play_published, clients_cleanup_at, commands_cleanup_at,
                   issued_to, ack_senders>>
    /\ UNCHANGED <<late_acks, sweep, command_lock, status_query, nodeVars>>

(* ------------------------------------------------------------------ *)
(* Time                                                                *)
(* ------------------------------------------------------------------ *)

(* the wake-up times of the sleeping threads *)
WakeUps ==
    {clients_cleanup_at, commands_cleanup_at} \cup {t.wake_at : t \in clear_threads}

(* time passes by at most step, up to limit and up to the next wake-up of a
   sleeping thread; a thread whose sleep is over runs before time passes on,
   and a request is served within one step of time *)
Advance(step, limit) ==
    /\ now < limit
    /\ api.pc = "idle"
    /\ \A t \in WakeUps : t > now
    /\ now' = Min({now + step, limit} \cup WakeUps)
    /\ UNCHANGED <<clients_last_seen, pending_commands, uuid_pool, api,
                   play_published, retained, clear_threads, clients_cleanup_at,
                   commands_cleanup_at, issued_to, ack_senders>>
    /\ UNCHANGED <<late_acks, sweep, command_lock, status_query, nodeVars>>

Tick == Advance(TimeStep, MaxTime)

(* ------------------------------------------------------------------ *)
(* The node (video_player_client.py)                                   *)
(* ------------------------------------------------------------------ *)

(* the play_video threads that can run at once *)
PLAY_THREADS == {"t1", "t2"}

(* max_attempts of start_playback_on_player *)
MAX_ATTEMPTS == 3

(* no play_video thread; a running thread holds its position, its arguments,
   the status of the acknowledgment it has sent, and as history whether
   another command arrived while this one had the node in manual mode *)
NoThread == [pc |-> "none", attempt |-> 0, index |-> 0,
             command_id |-> NoCommand, acked |-> "none",
             superseded |-> FALSE]

(* player.is_playing() *)
IsPlaying(player) == players[player] = "playing"

(* player.stop() *)
Stopped(ps, player) == [ps EXCEPT ![player] = "idle"]

(* player.set_media(None), player.set_media(media) and player.play()
   returning 0: set_media releases what the player was rendering, and the
   player starts to open the new media *)
Played(ps, player) == [ps EXCEPT ![player] = "starting"]

(* payloads on video/play after payload.split(","): the coordinator's
   index,start_time,command_id and the empty payload that clears the
   retained message *)
NodeMessages ==
    {PlayMessage(i, DELAY, c) : i \in 0..NumVideos, c \in CommandIds} \cup {<<"">>}

(* the play_video thread on_message starts for a payload *)
NewThread(parts) ==
    [pc |-> "switch_to_manual", attempt |-> 0,
     index |-> parts[1], command_id |-> parts[3], acked |-> "none",
     superseded |-> FALSE]

(* history: a running thread whose command has the node in manual mode when
   a message with another command id arrives is superseded from then on *)
Supersede(th, command_id) ==
    IF manual_mode /\ th.pc # "none" /\ th.command_id # command_id
    THEN [th EXCEPT !.superseded = TRUE]
    ELSE th

(* the threads after on_message has handled a payload: a payload of three
   fields starts a play_video thread, any other is logged and dropped *)
Delivered(t, parts) ==
    IF Len(parts) >= 3
    THEN [o \in PLAY_THREADS |->
             IF o = t THEN NewThread(parts)
             ELSE Supersede(play_threads[o], parts[3])]
    ELSE play_threads

(* on_message(payload); it does not read self.connected *)
OnMessage(t, parts) ==
    /\ play_threads[t].pc = "none"
    /\ play_threads' = Delivered(t, parts)
    /\ UNCHANGED <<manual_mode, loop_pause_event, active_player,
                   playback_control_lock, players, loop_thread>>
    /\ UNCHANGED <<manual_media, connected, brainVars, syncVars, lockVars>>

(* the send_heartbeat threads that have been started and have not returned *)
HeartbeatCount == heartbeat_threads.publish + heartbeat_threads.sleep

(* on_connect: threading.Thread(target=self.send_heartbeat).start() *)
StartedHeartbeat == [heartbeat_threads EXCEPT !.publish = @ + 1]

(* on_connect with rc == 0: self.connected = True,
   client.subscribe(MQTT_TOPIC_PLAY) and a new send_heartbeat thread; the
   broker delivers the retained message of the topic, if it holds one, to
   on_message *)
Subscribe(t) ==
    /\ ~connected
    /\ HeartbeatCount < MaxHeartbeats
    /\ connected' = TRUE
    /\ heartbeat_threads' = StartedHeartbeat
    /\ play_threads[t].pc = "none"
    /\ play_threads' = IF retained # <<>> THEN Delivered(t, retained)
                       ELSE play_threads
    /\ UNCHANGED <<manual_mode, loop_pause_event, active_player,
                   playback_control_lock, players, loop_thread>>
    /\ UNCHANGED <<manual_media, brainVars, lockVars>>
    /\ UNCHANGED <<clock_skew, node_published, time_response, sync_wait>>

(* on_disconnect: self.connected = False *)
OnDisconnect ==
    /\ connected
    /\ connected' = FALSE
    /\ UNCHANGED <<manual_mode, loop_pause_event, active_player,
                   playback_control_lock, players, loop_thread, play_threads>>
    /\ UNCHANGED <<manual_media, brainVars, syncVars, lockVars>>

(* switch_to_manual_mode from taking the lock to the wait for the loop
   player: returns at once when already in manual mode; else sets the pause
   event and stops the loop player *)
SwitchToManualEnter(t) ==
    /\ play_threads[t].pc = "switch_to_manual"
    /\ playback_control_lock = "free"
    /\ IF manual_mode
       THEN /\ play_threads' = [play_threads EXCEPT ![t].pc = "validate"]
            /\ UNCHANGED <<loop_pause_event, playback_control_lock, players>>
       ELSE /\ loop_pause_event' = TRUE
            /\ playback_control_lock' = t
            /\ players' = IF active_player = "loop"
                          THEN Stopped(players, "loop") ELSE players
            /\ play_threads' = [play_threads EXCEPT ![t].pc = "manual_wait"]
    /\ UNCHANGED <<manual_mode, active_player, loop_thread>>
    /\ UNCHANGED <<manual_media, connected, brainVars, syncVars, lockVars>>

(* mutant: switch_to_manual_mode calls set_state(LOADING) before it
   releases playback_control_lock *)
SwitchToManualFinishSetsState(t) ==
    /\ play_threads[t].pc = "manual_wait"
    /\ state_lock = "free"
    /\ current_state' = "loading"
    /\ manual_mode' = TRUE
    /\ active_player' = "manual"
    /\ playback_control_lock' = "free"
    /\ play_threads' = [play_threads EXCEPT ![t].pc = "validate"]
    /\ UNCHANGED <<loop_pause_event, players, loop_thread>>
    /\ UNCHANGED <<manual_media, connected, brainVars, syncVars>>
    /\ UNCHANGED <<state_lock, status_call>>

(* mutant: the switch to manual mode leaves active_player as it was *)
SwitchToManualFinishKeepsPlayer(t) ==
    /\ play_threads[t].pc = "manual_wait"
    /\ manual_mode' = TRUE
    /\ playback_control_lock' = "free"
    /\ play_threads' = [play_threads EXCEPT ![t].pc = "validate"]
    /\ UNCHANGED <<loop_pause_event, active_player, players, loop_thread>>
    /\ UNCHANGED <<manual_media, connected, brainVars, syncVars, lockVars>>

(* switch_to_manual_mode from the end of its wait (the loop player stopped,
   or 5 seconds passed) to its return; then play_video's sleep(1.0) *)
SwitchToManualFinish(t) ==
    /\ play_threads[t].pc = "manual_wait"
    /\ manual_mode' = TRUE
    /\ active_player' = "manual"
    /\ playback_control_lock' = "free"
    /\ play_threads' = [play_threads EXCEPT ![t].pc = "validate"]
    /\ UNCHANGED <<loop_pause_event, players, loop_thread>>
    /\ UNCHANGED <<manual_media, connected, brainVars, syncVars, lockVars>>

(* mutant: a failure is acknowledged and play_video returns at once, as
   after a failed switch_to_manual_mode *)
FailedWithoutRecovery(th) ==
    [th EXCEPT !.acked = "error", !.pc = "none", !.attempt = 0]

(* play_video on a local failure: send_acknowledgment(command_id, "error",
   ...), then switch_to_loop_mode() *)
Failed(th) == [th EXCEPT !.acked = "error", !.pc = "switch_to_loop", !.attempt = 0]

(* play_video: the index check and the os.path.exists check *)
Validate(t, exists) ==
    /\ play_threads[t].pc = "validate"
    /\ play_threads' =
           IF ~(0 <= play_threads[t].index /\ play_threads[t].index < NumVideos)
              \/ ~exists
           THEN [play_threads EXCEPT ![t] = Failed(@)]
           ELSE [play_threads EXCEPT ![t].pc = "set_media", ![t].attempt = 0]
    /\ UNCHANGED <<manual_mode, loop_pause_event, active_player,
                   playback_control_lock, players, loop_thread>>
    /\ UNCHANGED <<manual_media, connected, brainVars, syncVars, lockVars>>

(* start_playback_on_player on the manual player: set_media and play(); a
   play() of -1 goes to the next attempt, or returns False after the last *)
PlayStartSet(t, result) ==
    /\ play_threads[t].pc = "set_media"
    /\ manual_media' = play_threads[t].command_id
    /\ IF result = -1
       THEN /\ play_threads' =
                   IF play_threads[t].attempt + 1 < MAX_ATTEMPTS
                   THEN [play_threads EXCEPT ![t].attempt = @ + 1]
                   ELSE [play_threads EXCEPT ![t] = Failed(@)]
            /\ players' = Stopped(players, "manual")
       ELSE /\ players' = Played(players, "manual")
            /\ play_threads' = [play_threads EXCEPT ![t].pc = "start_wait"]
    /\ UNCHANGED <<manual_mode, loop_pause_event, active_player,
                   playback_control_lock, loop_thread>>
    /\ UNCHANGED <<connected, brainVars, syncVars, lockVars>>

(* start_playback_on_player returns True: the manual player reports
   playing; then play_video's wait for start_time *)
PlayStartStarted(t) ==
    /\ play_threads[t].pc = "start_wait"
    /\ IsPlaying("manual")
    /\ play_threads' = [play_threads EXCEPT ![t].pc = "verify", ![t].attempt = 0]
    /\ UNCHANGED <<manual_mode, loop_pause_event, active_player,
                   playback_control_lock, players, loop_thread>>
    /\ UNCHANGED <<manual_media, connected, brainVars, syncVars, lockVars>>

(* mutant: start_playback_on_player gives up at the first attempt that does
   not start *)
PlayStartTimeoutOnce(t) ==
    /\ play_threads[t].pc = "start_wait"
    /\ ~IsPlaying("manual")
    /\ play_threads' = [play_threads EXCEPT ![t] = Failed(@)]
    /\ UNCHANGED players
    /\ UNCHANGED <<manual_mode, loop_pause_event, active_player,
                   playback_control_lock, loop_thread>>
    /\ UNCHANGED <<manual_media, connected, brainVars, syncVars, lockVars>>

(* start_playback_on_player: 3 seconds without playing; stop() and the next
   attempt, or after the last attempt return False with no stop() *)
PlayStartTimeout(t) ==
    /\ play_threads[t].pc = "start_wait"
    /\ ~IsPlaying("manual")
    /\ IF play_threads[t].attempt < MAX_ATTEMPTS - 1
       THEN /\ players' = Stopped(players, "manual")
            /\ play_threads' = [play_threads EXCEPT ![t].attempt = @ + 1,
                                                    ![t].pc = "set_media"]
       ELSE /\ play_threads' = [play_threads EXCEPT ![t] = Failed(@)]
            /\ UNCHANGED players
    /\ UNCHANGED <<manual_mode, loop_pause_event, active_player,
                   playback_control_lock, loop_thread>>
    /\ UNCHANGED <<manual_media, connected, brainVars, syncVars, lockVars>>

(* play_video: the final verification and the acknowledgment *)
Verify(t) ==
    /\ play_threads[t].pc = "verify"
    /\ play_threads' =
           IF IsPlaying("manual")
           THEN [play_threads EXCEPT ![t].acked = "success", ![t].pc = "monitor"]
           ELSE [play_threads EXCEPT ![t] = Failed(@)]
    /\ UNCHANGED <<manual_mode, loop_pause_event, active_player,
                   playback_control_lock, players, loop_thread>>
    /\ UNCHANGED <<manual_media, connected, brainVars, syncVars, lockVars>>

(* play_video: an exception in the body goes to the except clause, which
   acknowledges an error and switches to loop mode *)
PlayVideoException(t) ==
    /\ play_threads[t].pc \in {"validate", "verify", "monitor"}
    /\ play_threads' = [play_threads EXCEPT ![t] = Failed(@)]
    /\ UNCHANGED <<manual_mode, loop_pause_event, active_player,
                   playback_control_lock, players, loop_thread>>
    /\ UNCHANGED <<manual_media, connected, brainVars, syncVars, lockVars>>

(* play_video: the monitoring loop ends when the manual player is not playing *)
MonitorEnd(t) ==
    /\ play_threads[t].pc = "monitor"
    /\ ~IsPlaying("manual")
    /\ play_threads' = [play_threads EXCEPT ![t].pc = "switch_to_loop"]
    /\ UNCHANGED <<manual_mode, loop_pause_event, active_player,
                   playback_control_lock, players, loop_thread>>
    /\ UNCHANGED <<manual_media, connected, brainVars, syncVars, lockVars>>

(* switch_to_loop_mode from taking the lock to the wait for the manual
   player: returns at once when already in loop mode (and play_video
   returns); else stops the manual player *)
SwitchToLoopEnter(t) ==
    /\ play_threads[t].pc = "switch_to_loop"
    /\ playback_control_lock = "free"
    /\ IF ~manual_mode
       THEN /\ play_threads' = [play_threads EXCEPT ![t] = NoThread]
            /\ UNCHANGED <<playback_control_lock, players>>
       ELSE /\ playback_control_lock' = t
            /\ players' = IF active_player = "manual"
                          THEN Stopped(players, "manual") ELSE players
            /\ play_threads' = [play_threads EXCEPT ![t].pc = "loop_wait"]
    /\ UNCHANGED <<manual_mode, loop_pause_event, active_player, loop_thread>>
    /\ UNCHANGED <<manual_media, connected, brainVars, syncVars, lockVars>>

(* mutant: the loop pause event is not cleared *)
SwitchToLoopFinishKeepsPause(t) ==
    /\ play_threads[t].pc = "loop_wait"
    /\ manual_mode' = FALSE
    /\ active_player' = "loop"
    /\ playback_control_lock' = "free"
    /\ play_threads' = [play_threads EXCEPT ![t] = NoThread]
    /\ UNCHANGED <<loop_pause_event, players, loop_thread>>
    /\ UNCHANGED <<manual_media, connected, brainVars, syncVars, lockVars>>

(* switch_to_loop_mode from the end of its wait to its return, and the
   return of play_video *)
SwitchToLoopFinish(t) ==
    /\ play_threads[t].pc = "loop_wait"
    /\ manual_mode' = FALSE
    /\ active_player' = "loop"
    /\ loop_pause_event' = FALSE
    /\ playback_control_lock' = "free"
    /\ play_threads' = [play_threads EXCEPT ![t] = NoThread]
    /\ UNCHANGED <<players, loop_thread>>
    /\ UNCHANGED <<manual_media, connected, brainVars, syncVars, lockVars>>

(* loop_thread: the pause check at the top of the loop; while the event is
   set the thread sleeps and checks again *)
LoopTop ==
    /\ loop_thread.pc = "top"
    /\ ~loop_pause_event
    /\ loop_thread' = [loop_thread EXCEPT !.pc = "manual_check"]
    /\ UNCHANGED <<manual_mode, loop_pause_event, active_player,
                   playback_control_lock, players, play_threads>>
    /\ UNCHANGED <<manual_media, connected, brainVars, syncVars, lockVars>>

(* loop_thread: is_in_manual_mode(), under the lock; in loop mode it goes
   on to start_playback_on_player *)
LoopManualCheck ==
    /\ loop_thread.pc = "manual_check"
    /\ playback_control_lock = "free"
    /\ loop_thread' = IF manual_mode
                      THEN [loop_thread EXCEPT !.pc = "top"]
                      ELSE [pc |-> "set_media", attempt |-> 0]
    /\ UNCHANGED <<manual_mode, loop_pause_event, active_player,
                   playback_control_lock, players, play_threads>>
    /\ UNCHANGED <<manual_media, connected, brainVars, syncVars, lockVars>>

(* start_playback_on_player on the loop player: set_media and play() *)
LoopStartSet(result) ==
    /\ loop_thread.pc = "set_media"
    /\ IF result = -1
       THEN /\ loop_thread' =
                   IF loop_thread.attempt + 1 < MAX_ATTEMPTS
                   THEN [loop_thread EXCEPT !.attempt = @ + 1]
                   ELSE [pc |-> "top", attempt |-> 0]
            /\ players' = Stopped(players, "loop")
       ELSE /\ players' = Played(players, "loop")
            /\ loop_thread' = [loop_thread EXCEPT !.pc = "start_wait"]
    /\ UNCHANGED <<manual_mode, loop_pause_event, active_player,
                   playback_control_lock, play_threads>>
    /\ UNCHANGED <<manual_media, connected, brainVars, syncVars, lockVars>>

(* start_playback_on_player returns True to the loop thread *)
LoopStartStarted ==
    /\ loop_thread.pc = "start_wait"
    /\ IsPlaying("loop")
    /\ loop_thread' = [pc |-> "monitor", attempt |-> 0]
    /\ UNCHANGED <<manual_mode, loop_pause_event, active_player,
                   playback_control_lock, players, play_threads>>
    /\ UNCHANGED <<manual_media, connected, brainVars, syncVars, lockVars>>

(* start_playback_on_player on the loop player: 3 seconds without playing *)
LoopStartTimeout ==
    /\ loop_thread.pc = "start_wait"
    /\ ~IsPlaying("loop")
    /\ IF loop_thread.attempt < MAX_ATTEMPTS - 1
       THEN /\ players' = Stopped(players, "loop")
            /\ loop_thread' = [loop_thread EXCEPT !.attempt = @ + 1,
                                                  !.pc = "set_media"]
       ELSE /\ loop_thread' = [pc |-> "top", attempt |-> 0]
            /\ UNCHANGED players
    /\ UNCHANGED <<manual_mode, loop_pause_event, active_player,
                   playback_control_lock, play_threads>>
    /\ UNCHANGED <<manual_media, connected, brainVars, syncVars, lockVars>>

(* loop_thread: the monitoring loop ends when the loop player is not
   playing, or breaks on the pause event or on manual mode; the loop player
   is not stopped here *)
LoopMonitorExit ==
    /\ loop_thread.pc = "monitor"
    /\ \/ ~IsPlaying("loop")
       \/ loop_pause_event
       \/ (playback_control_lock = "free" /\ manual_mode)
    /\ loop_thread' = [loop_thread EXCEPT !.pc = "after"]
    /\ UNCHANGED <<manual_mode, loop_pause_event, active_player,
                   playback_control_lock, players, play_threads>>
    /\ UNCHANGED <<manual_media, connected, brainVars, syncVars, lockVars>>

(* loop_thread: the restart check after the monitoring loop *)
LoopAfter ==
    /\ loop_thread.pc = "after"
    /\ loop_pause_event \/ playback_control_lock = "free"
    /\ loop_thread' = [loop_thread EXCEPT !.pc = "top"]
    /\ UNCHANGED <<manual_mode, loop_pause_event, active_player,
                   playback_control_lock, players, play_threads>>
    /\ UNCHANGED <<manual_media, connected, brainVars, syncVars, lockVars>>

(* VLC: a player that was opening its media starts to render *)
EngineStarted(player) ==
    /\ players[player] = "starting"
    /\ players' = [players EXCEPT ![player] = "playing"]
    /\ UNCHANGED <<manual_mode, loop_pause_event, active_player,
                   playback_control_lock, loop_thread, play_threads>>
    /\ UNCHANGED <<manual_media, connected, brainVars, syncVars, lockVars>>

(* VLC: the media ends, or the player fails to open it *)
EngineEnded(player) ==
    /\ players[player] # "idle"
    /\ players' = [players EXCEPT ![player] = "idle"]
    /\ UNCHANGED <<manual_mode, loop_pause_event, active_player,
                   playback_control_lock, loop_thread, play_threads>>
    /\ UNCHANGED <<manual_media, connected, brainVars, syncVars, lockVars>>

(* MQTT_TOPIC_HEARTBEAT *)
MQTT_TOPIC_HEARTBEAT == "clients/status"

(* time.time() on the node *)
NodeTime == now - clock_skew

(* send_heartbeat, started by on_connect: while self.connected it publishes
   CLIENT_ID on MQTT_TOPIC_HEARTBEAT, then time.sleep(HEARTBEAT_INTERVAL) *)
SendHeartbeat ==
    /\ connected
    /\ heartbeat_threads.publish > 0
    /\ heartbeat_threads' = [heartbeat_threads EXCEPT !.publish = @ - 1,
                                                      !.sleep = @ + 1]
    /\ node_published' = node_published \cup {MQTT_TOPIC_HEARTBEAT}
    /\ UNCHANGED <<manual_mode, loop_pause_event, active_player,
                   playback_control_lock, players, loop_thread, play_threads>>
    /\ UNCHANGED <<manual_media, connected, brainVars, lockVars>>
    /\ UNCHANGED <<clock_skew, time_response, sync_wait>>

(* send_heartbeat: self.connected is False at the test of the while loop,
   the thread returns *)
HeartbeatExit ==
    /\ ~connected
    /\ heartbeat_threads.publish > 0
    /\ heartbeat_threads' = [heartbeat_threads EXCEPT !.publish = @ - 1]
    /\ UNCHANGED <<manual_mode, loop_pause_event, active_player,
                   playback_control_lock, players, loop_thread, play_threads>>
    /\ UNCHANGED <<manual_media, connected, brainVars, lockVars>>
    /\ UNCHANGED <<clock_skew, node_published, time_response, sync_wait>>

(* send_heartbeat: the sleep is over, the thread is back at the test of the
   while loop *)
HeartbeatWake ==
    /\ heartbeat_threads.sleep > 0
    /\ heartbeat_threads' = [heartbeat_threads EXCEPT !.sleep = @ - 1,
                                                      !.publish = @ + 1]
    /\ UNCHANGED <<manual_mode, loop_pause_event, active_player,
                   playback_control_lock, players, loop_thread, play_threads>>
    /\ UNCHANGED <<manual_media, connected, brainVars, lockVars>>
    /\ UNCHANGED <<clock_skew, node_published, time_response, sync_wait>>

(* a message whose payload is the coordinator's time reaches on_message:
   the payload has one field, so it is logged as invalid and nothing is
   stored; the history keeps the first such delivery *)
OnTimeResponse ==
    /\ connected
    /\ play_threads' = Delivered(CHOOSE t \in PLAY_THREADS : TRUE, <<now>>)
    /\ time_response' = IF time_response = <<>> THEN <<now, NodeTime>>
                        ELSE time_response
    /\ UNCHANGED <<manual_mode, loop_pause_event, active_player,
                   playback_control_lock, players, loop_thread>>
    /\ UNCHANGED <<manual_media, connected, brainVars, lockVars>>
    /\ UNCHANGED <<clock_skew, heartbeat_threads, node_published, sync_wait>>

(* play_video: wait_seconds = start_time - time.time() *)
WaitSeconds(start_time, local_time) == start_time - local_time

(* play_video, the synchronization step: wait_seconds is computed, and
   time.sleep(wait_seconds) is called if it is positive *)
SyncWait(start_time) ==
    /\ sync_wait.pc = "idle"
    /\ sync_wait' = [pc |-> "computed", start_time |-> start_time,
                     wait_seconds |-> WaitSeconds(start_time, NodeTime),
                     sleeps |-> WaitSeconds(start_time, NodeTime) > 0]
    /\ UNCHANGED <<manual_mode, loop_pause_event, active_player,
                   playback_control_lock, players, loop_thread, play_threads>>
    /\ UNCHANGED <<manual_media, connected, brainVars, lockVars>>
    /\ UNCHANGED <<clock_skew, heartbeat_threads, node_published, time_response>>

(* play_video goes on to its final verification *)
SyncWaitDone ==
    /\ sync_wait.pc = "computed"
    /\ sync_wait' = NoWait
    /\ UNCHANGED <<manual_mode, loop_pause_event, active_player,
                   playback_control_lock, players, loop_thread, play_threads>>
    /\ UNCHANGED <<manual_media, connected, brainVars, lockVars>>
    /\ UNCHANGED <<clock_skew, heartbeat_threads, node_published, time_response>>

(* the values set_state is called with where the play_video thread t is:
   LOADING or ERROR at the checks, PLAYING or ERROR at the final
   verification, ERROR before switch_to_loop_mode on a failure, and LOOPING
   as the last statement, after switch_to_loop_mode has returned *)
PlaySetStateArgs(t) ==
    CASE play_threads[t].pc = "validate" -> {"loading", "error"}
      [] play_threads[t].pc = "verify" -> {"playing", "error"}
      [] play_threads[t].pc = "switch_to_loop" -> {"error"}
      [] play_threads[t].pc = "none" -> {"looping"}
      [] OTHER -> {}

(* the loop thread calls set_state(LOOPING) before start_playback_on_player *)
LoopSetStateArgs ==
    IF loop_thread.pc = "set_media" /\ loop_thread.attempt = 0
    THEN {"looping"} ELSE {}

(* set_state(new_state): with self.state_lock the state is written; the
   call requests no other lock *)
SetState(new_state) ==
    /\ new_state \in LoopSetStateArgs \cup UNION {PlaySetStateArgs(t) : t \in PLAY_THREADS}
    /\ state_lock = "free"
    /\ current_state' = new_state
    /\ UNCHANGED <<manual_mode, loop_pause_event, active_player,
                   playback_control_lock, players, loop_thread, play_threads>>
    /\ UNCHANGED <<manual_media, connected, brainVars, syncVars>>
    /\ UNCHANGED <<state_lock, status_call>>

(* get_status, called by send_heartbeat: with self.state_lock *)
GetStatusEnter ==
    /\ connected
    /\ status_call.pc = "idle"
    /\ state_lock = "free"
    /\ state_lock' = "heartbeat"
    /\ status_call' = [status_call EXCEPT !.pc = "state_lock"]
    /\ UNCHANGED <<manual_mode, loop_pause_event, active_player,
                   playback_control_lock, players, loop_thread, play_threads>>
    /\ UNCHANGED <<manual_media, connected, brainVars, syncVars>>
    /\ UNCHANGED current_state

(* get_status: with self.playback_control_lock, inside the first *)
GetStatusInner ==
    /\ status_call.pc = "state_lock"
    /\ playback_control_lock = "free"
    /\ playback_control_lock' = "heartbeat"
    /\ status_call' = [status_call EXCEPT !.pc = "both"]
    /\ UNCHANGED <<manual_mode, loop_pause_event, active_player,
                   players, loop_thread, play_threads>>
    /\ UNCHANGED <<manual_media, connected, brainVars, syncVars>>
    /\ UNCHANGED <<state_lock, current_state>>

(* get_status: the dict is built and returned (it is not kept), both locks
   are released *)
GetStatusReturn ==
    /\ status_call.pc = "both"
    /\ status_call' = NoStatusCall
    /\ playback_control_lock' = "free"
    /\ state_lock' = "free"
    /\ UNCHANGED <<manual_mode, loop_pause_event, active_player,
                   players, loop_thread, play_threads>>
    /\ UNCHANGED <<manual_media, connected, brainVars, syncVars>>
    /\ UNCHANGED current_state

(* ------------------------------------------------------------------ *)
(* The coordinator                                                     *)
(* ------------------------------------------------------------------ *)

Init ==
    /\ now = 0
    /\ clients_last_seen = <<>>
    /\ pending_commands = <<>>
    /\ uuid_pool = UUIDS
    /\ api = IdleApi
    /\ play_published = <<>>
    /\ retained = <<>>
    /\ clear_threads = {}
    /\ clients_cleanup_at = 0
    /\ commands_cleanup_at = 0
    /\ issued_to = <<>>
    /\ ack_senders = <<>>
    /\ late_acks = {}
    /\ sweep = IdleSweep
    /\ command_lock = "free"
    /\ status_query = IdleStatus
    /\ manual_mode = FALSE
    /\ loop_pause_event = FALSE
    /\ active_player = "loop"
    /\ playback_control_lock = "free"
    /\ players = [p \in {"loop", "manual"} |-> "idle"]
    /\ manual_media = NoCommand
    /\ connected = FALSE
    /\ clock_skew = 0
    /\ heartbeat_threads = NoHeartbeats
    /\ node_published = {}
    /\ time_response = <<>>
    /\ sync_wait = NoWait
    /\ state_lock = "free"
    /\ current_state = "idle"
    /\ status_call = NoStatusCall
    /\ loop_thread = [pc |-> "top", attempt |-> 0]
    /\ play_threads = [t \in PLAY_THREADS |-> NoThread]

Next ==
    \/ \E client_id \in CLIENT_IDS : HandleHeartbeat(client_id)
    \/ CleanupInactiveClients
    \/ \E parts \in AckPayloads : HandleAcknowledgment(parts)
    \/ CleanupOldCommands
    \/ \E video_index \in -1..NumVideos : ApiPlay(video_index)
    \/ SendVideoCommandStore
    \/ \E rcs \in PublishResults, rcs_retain \in PublishResults :
           SendVideoCommandPublish(rcs, rcs_retain)
    \/ ApiReturn
    \/ \E thread \in clear_threads, rcs \in PublishResults : ClearRetained(thread, rcs)
    \/ Tick

Spec == Init /\ [][Next]_vars

(* ------------------------------------------------------------------ *)
(* The node's threads                                                  *)
(* ------------------------------------------------------------------ *)

NodeNext ==
    \/ \E t \in PLAY_THREADS, parts \in NodeMessages : OnMessage(t, parts)
    \/ \E t \in PLAY_THREADS : SwitchToManualEnter(t)
    \/ \E t \in PLAY_THREADS : SwitchToManualFinish(t)
    \/ \E t \in PLAY_THREADS, exists \in BOOLEAN : Validate(t, exists)
    \/ \E t \in PLAY_THREADS, result \in {0, -1} : PlayStartSet(t, result)
    \/ \E t \in PLAY_THREADS : PlayStartStarted(t)
    \/ \E t \in PLAY_THREADS : PlayStartTimeout(t)
    \/ \E t \in PLAY_THREADS : Verify(t)
    \/ \E t \in PLAY_THREADS : PlayVideoException(t)
    \/ \E t \in PLAY_THREADS : MonitorEnd(t)
    \/ \E t \in PLAY_THREADS : SwitchToLoopEnter(t)
    \/ \E t \in PLAY_THREADS : SwitchToLoopFinish(t)
    \/ LoopTop
    \/ LoopManualCheck
    \/ \E result \in {0, -1} : LoopStartSet(result)
    \/ LoopStartStarted
    \/ LoopStartTimeout
    \/ LoopMonitorExit
    \/ LoopAfter
    \/ \E player \in {"loop", "manual"} : EngineStarted(player)
    \/ \E player \in {"loop", "manual"} : EngineEnded(player)

NodeSpec == Init /\ [][NodeNext]_vars

(* the threads of the node are scheduled again and again, so a step a
   thread can take it takes in the end, and a medium that plays comes to
   its end; the arrival of messages and exceptions are under no such
   obligation *)
NodeFairness ==
    /\ \A t \in PLAY_THREADS :
          /\ WF_vars(SwitchToManualEnter(t))
          /\ WF_vars(SwitchToManualFinish(t))
          /\ WF_vars(\E exists \in BOOLEAN : Validate(t, exists))
          /\ WF_vars(\E result \in {0, -1} : PlayStartSet(t, result))
          /\ WF_vars(PlayStartStarted(t))
          /\ WF_vars(PlayStartTimeout(t))
          /\ WF_vars(Verify(t))
          /\ WF_vars(MonitorEnd(t))
          /\ WF_vars(SwitchToLoopEnter(t))
          /\ WF_vars(SwitchToLoopFinish(t))
    /\ WF_vars(LoopTop)
    /\ WF_vars(LoopManualCheck)
    /\ WF_vars(\E result \in {0, -1} : LoopStartSet(result))
    /\ WF_vars(LoopStartStarted)
    /\ WF_vars(LoopStartTimeout)
    /\ WF_vars(LoopMonitorExit)
    /\ WF_vars(LoopAfter)
    /\ \A player \in {"loop", "manual"} : WF_vars(EngineEnded(player))

(* the coordinator's play commands for the first video; the index of a
   command is read by the range check of play_video and nowhere else *)
PlayCommands == {PlayMessage(0, DELAY, c) : c \in CommandIds}

(* the node when the messages on video/play are the coordinator's play
   commands *)
ReturnNext ==
    \/ \E t \in PLAY_THREADS, parts \in PlayCommands : OnMessage(t, parts)
    \/ \E t \in PLAY_THREADS : SwitchToManualEnter(t)
    \/ \E t \in PLAY_THREADS : SwitchToManualFinish(t)
    \/ \E t \in PLAY_THREADS, exists \in BOOLEAN : Validate(t, exists)
    \/ \E t \in PLAY_THREADS, result \in {0, -1} : PlayStartSet(t, result)
    \/ \E t \in PLAY_THREADS : PlayStartStarted(t)
    \/ \E t \in PLAY_THREADS : PlayStartTimeout(t)
    \/ \E t \in PLAY_THREADS : Verify(t)
    \/ \E t \in PLAY_THREADS : PlayVideoException(t)
    \/ \E t \in PLAY_THREADS : MonitorEnd(t)
    \/ \E t \in PLAY_THREADS : SwitchToLoopEnter(t)
    \/ \E t \in PLAY_THREADS : SwitchToLoopFinish(t)
    \/ LoopTop
    \/ LoopManualCheck
    \/ \E result \in {0, -1} : LoopStartSet(result)
    \/ LoopStartStarted
    \/ LoopStartTimeout
    \/ LoopMonitorExit
    \/ LoopAfter
    \/ \E player \in {"loop", "manual"} : EngineStarted(player)
    \/ \E player \in {"loop", "manual"} : EngineEnded(player)

ReturnSpec == Init /\ [][ReturnNext]_vars /\ NodeFairness

(* ------------------------------------------------------------------ *)
(* The two locks of the node                                           *)
(* ------------------------------------------------------------------ *)

(* the node with the status reports of its heartbeat thread: get_status,
   set_state, the mode switches and is_in_manual_mode interleave; one
   play_video thread runs at a time *)
LockOrderNext ==
    \/ \E t \in PLAY_THREADS : Subscribe(t)
    \/ OnMessage("t1", PlayMessage(0, DELAY, Head(UUIDS)))
    \/ \E t \in PLAY_THREADS : SwitchToManualEnter(t)
    \/ \E t \in PLAY_THREADS : SwitchToManualFinish(t)
    \/ \E t \in PLAY_THREADS, exists \in BOOLEAN : Validate(t, exists)
    \/ \E t \in PLAY_THREADS, result \in {0, -1} : PlayStartSet(t, result)
    \/ \E t \in PLAY_THREADS : PlayStartStarted(t)
    \/ \E t \in PLAY_THREADS : PlayStartTimeout(t)
    \/ \E t \in PLAY_THREADS : Verify(t)
    \/ \E t \in PLAY_THREADS : PlayVideoException(t)
    \/ \E t \in PLAY_THREADS : MonitorEnd(t)
    \/ \E t \in PLAY_THREADS : SwitchToLoopEnter(t)
    \/ \E t \in PLAY_THREADS : SwitchToLoopFinish(t)
    \/ LoopTop
    \/ LoopManualCheck
    \/ \E result \in {0, -1} : LoopStartSet(result)
    \/ LoopStartStarted
    \/ LoopStartTimeout
    \/ LoopMonitorExit
    \/ LoopAfter
    \/ \E player \in {"loop", "manual"} : EngineStarted(player)
    \/ \E player \in {"loop", "manual"} : EngineEnded(player)
    \/ \E new_state \in {"loading", "playing", "looping", "error"} : SetState(new_state)
    \/ GetStatusEnter
    \/ GetStatusInner
    \/ GetStatusReturn

(* a thread blocked on a lock gets it at one of the times it is free; a
   thread that holds one goes on *)
LockFairness ==
    /\ NodeFairness
    /\ SF_vars(GetStatusInner)
    /\ WF_vars(GetStatusReturn)
    /\ SF_vars(LoopManualCheck)
    /\ \A t \in PLAY_THREADS :
          /\ SF_vars(SwitchToManualEnter(t))
          /\ SF_vars(SwitchToLoopEnter(t))

LockOrderSpec == Init /\ [][LockOrderNext]_vars /\ LockFairness

(* ------------------------------------------------------------------ *)
(* Dispatches that overlap, and a node that subscribes late            *)
(* ------------------------------------------------------------------ *)

(* the coordinator after the heartbeat of one node, with two uuid4 values
   to draw *)
DispatchInit ==
    /\ now = 0
    /\ clients_last_seen = [c \in {"pi1"} |-> 0]
    /\ pending_commands = <<>>
    /\ uuid_pool = <<"u1", "u2">>
    /\ api = IdleApi
    /\ play_published = <<>>
    /\ retained = <<>>
    /\ clear_threads = {}
    /\ clients_cleanup_at = 0
    /\ commands_cleanup_at = 0
    /\ issued_to = <<>>
    /\ ack_senders = <<>>
    /\ late_acks = {}
    /\ sweep = IdleSweep
    /\ command_lock = "free"
    /\ status_query = IdleStatus
    /\ manual_mode = FALSE
    /\ loop_pause_event = FALSE
    /\ active_player = "loop"
    /\ playback_control_lock = "free"
    /\ players = [p \in {"loop", "manual"} |-> "idle"]
    /\ manual_media = NoCommand
    /\ connected = FALSE
    /\ clock_skew = 0
    /\ heartbeat_threads = NoHeartbeats
    /\ node_published = {}
    /\ time_response = <<>>
    /\ sync_wait = NoWait
    /\ state_lock = "free"
    /\ current_state = "idle"
    /\ status_call = NoStatusCall
    /\ loop_thread = [pc |-> "top", attempt |-> 0]
    /\ play_threads = [t \in PLAY_THREADS |-> NoThread]

DispatchNext ==
    \/ CleanupInactiveClients
    \/ CleanupOldCommands
    \/ \E video_index \in -1..NumVideos : ApiPlay(video_index)
    \/ SendVideoCommandStore
    \/ \E rcs \in PublishResults, rcs_retain \in PublishResults :
           SendVideoCommandPublish(rcs, rcs_retain)
    \/ ApiReturn
    \/ \E thread \in clear_threads, rcs \in PublishResults : ClearRetained(thread, rcs)
    \/ Advance(1, MaxDispatchTime)
    \/ \E t \in PLAY_THREADS : Subscribe(t)
    \/ OnDisconnect

DispatchSpec == DispatchInit /\ [][DispatchNext]_vars

(* ------------------------------------------------------------------ *)
(* Membership over several sweeps                                      *)
(* ------------------------------------------------------------------ *)

MembershipNext ==
    \/ \E client_id \in CLIENT_IDS : HandleHeartbeat(client_id)
    \/ CleanupInactiveClients
    \/ CleanupOldCommands
    \/ \E video_index \in -1..NumVideos : ApiPlay(video_index)
    \/ SendVideoCommandStore
    \/ \E rcs \in PublishResults, rcs_retain \in PublishResults :
           SendVideoCommandPublish(rcs, rcs_retain)
    \/ ApiReturn
    \/ \E thread \in clear_threads, rcs \in PublishResults : ClearRetained(thread, rcs)
    \/ Advance(TimeStep, MaxSweepTime)

MembershipSpec == Init /\ [][MembershipNext]_vars

(* ------------------------------------------------------------------ *)
(* Status queries among the other users of command_lock                *)
(* ------------------------------------------------------------------ *)

(* cleanup_old_commands: with self.command_lock *)
CleanupOldCommandsLocked == command_lock = "free" /\ CleanupOldCommands

(* send_video_command: with self.command_lock *)
SendVideoCommandStoreLocked == command_lock = "free" /\ SendVideoCommandStore

LockNext ==
    \/ \E parts \in AckPayloads : AckLocked(parts)
    \/ CleanupOldCommandsLocked
    \/ CleanupInactiveClients
    \/ \E video_index \in -1..NumVideos : ApiPlay(video_index)
    \/ SendVideoCommandStoreLocked
    \/ \E rcs \in PublishResults, rcs_retain \in PublishResults :
           SendVideoCommandPublish(rcs, rcs_retain)
    \/ ApiReturn
    \/ \E thread \in clear_threads, rcs \in PublishResults : ClearRetained(thread, rcs)
    \/ \E command_id \in CommandIds : StatusBegin(command_id)
    \/ StatusSuccessCount
    \/ StatusErrorCount
    \/ StatusReturn
    \/ StatusAnswer
    \/ Tick

(* the coordinator after the heartbeats of both nodes *)
LockInit ==
    /\ now = 0
    /\ clients_last_seen = [c \in CLIENT_IDS |-> 0]
    /\ pending_commands = <<>>
    /\ uuid_pool = UUIDS
    /\ api = IdleApi
    /\ play_published = <<>>
    /\ retained = <<>>
    /\ clear_threads = {}
    /\ clients_cleanup_at = 0
    /\ commands_cleanup_at = 0
    /\ issued_to = <<>>
    /\ ack_senders = <<>>
    /\ late_acks = {}
    /\ sweep = IdleSweep
    /\ command_lock = "free"
    /\ status_query = IdleStatus
    /\ manual_mode = FALSE
    /\ loop_pause_event = FALSE
    /\ active_player = "loop"
    /\ playback_control_lock = "free"
    /\ players = [p \in {"loop", "manual"} |-> "idle"]
    /\ manual_media = NoCommand
    /\ connected = FALSE
    /\ clock_skew = 0
    /\ heartbeat_threads = NoHeartbeats
    /\ node_published = {}
    /\ time_response = <<>>
    /\ sync_wait = NoWait
    /\ state_lock = "free"
    /\ current_state = "idle"
    /\ status_call = NoStatusCall
    /\ loop_thread = [pc |-> "top", attempt |-> 0]
    /\ play_threads = [t \in PLAY_THREADS |-> NoThread]

LockSpec == LockInit /\ [][LockNext]_vars

(* ------------------------------------------------------------------ *)
(* The coordinator on a bus that carries any ack payload               *)
(* ------------------------------------------------------------------ *)

IngestNext ==
    \/ \E parts \in BusAckPayloads : HandleAcknowledgment(parts)
    \/ CleanupInactiveClients
    \/ CleanupOldCommands
    \/ \E video_index \in -1..NumVideos : ApiPlay(video_index)
    \/ SendVideoCommandStore
    \/ \E rcs \in PublishResults, rcs_retain \in PublishResults :
           SendVideoCommandPublish(rcs, rcs_retain)
    \/ ApiReturn
    \/ \E thread \in clear_threads, rcs \in PublishResults : ClearRetained(thread, rcs)
    \/ Tick

IngestSpec == LockInit /\ [][IngestNext]_vars

(* ------------------------------------------------------------------ *)
(* The sweep and the heartbeats, interleaved                           *)
(* ------------------------------------------------------------------ *)

(* time passes while the sweep sleeps: a pass takes no time on the scale
   of the model *)
SweepTick == sweep.pc = "sleep" /\ Advance(TimeStep, MaxSweepTime)

SweepNext ==
    \/ \E client_id \in CLIENT_IDS : HandleHeartbeat(client_id)
    \/ SweepScanBegin
    \/ SweepScanEnd
    \/ \E client_id \in CLIENT_IDS : SweepDelete(client_id)
    \/ SweepSleep
    \/ SweepRecover
    \/ CleanupOldCommands
    \/ SweepTick

SweepSpec == Init /\ [][SweepNext]_vars

(* ------------------------------------------------------------------ *)
(* A node whose clock differs from the coordinator's                   *)
(* ------------------------------------------------------------------ *)

SyncInit ==
    /\ now = 0
    /\ clients_last_seen = <<>>
    /\ pending_commands = <<>>
    /\ uuid_pool = UUIDS
    /\ api = IdleApi
    /\ play_published = <<>>
    /\ retained = <<>>
    /\ clear_threads = {}
    /\ clients_cleanup_at = 0
    /\ commands_cleanup_at = 0
    /\ issued_to = <<>>
    /\ ack_senders = <<>>
    /\ late_acks = {}
    /\ sweep = IdleSweep
    /\ command_lock = "free"
    /\ status_query = IdleStatus
    /\ manual_mode = FALSE
    /\ loop_pause_event = FALSE
    /\ active_player = "loop"
    /\ playback_control_lock = "free"
    /\ players = [p \in {"loop", "manual"} |-> "idle"]
    /\ manual_media = NoCommand
    /\ connected = FALSE
    /\ clock_skew \in 0..MaxSkew
    /\ heartbeat_threads = NoHeartbeats
    /\ node_published = {}
    /\ time_response = <<>>
    /\ sync_wait = NoWait
    /\ state_lock = "free"
    /\ current_state = "idle"
    /\ status_call = NoStatusCall
    /\ loop_thread = [pc |-> "top", attempt |-> 0]
    /\ play_threads = [t \in PLAY_THREADS |-> NoThread]

(* a heartbeat the node published reaches the coordinator's on_message *)
HeartbeatDelivered ==
    /\ MQTT_TOPIC_HEARTBEAT \in node_published
    /\ HandleHeartbeat("pi1")

(* the node "pi1" connects, sends heartbeats and reaches the
   synchronization step of commands scheduled by the coordinator *)
SyncNext ==
    \/ \E t \in PLAY_THREADS : Subscribe(t)
    \/ OnDisconnect
    \/ SendHeartbeat
    \/ HeartbeatExit
    \/ HeartbeatWake
    \/ HeartbeatDelivered
    \/ OnTimeResponse
    \/ \E start_time \in 0..(MaxDispatchTime + DELAY) : SyncWait(start_time)
    \/ SyncWaitDone
    \/ CleanupInactiveClients
    \/ CleanupOldCommands
    \/ Advance(1, MaxDispatchTime)

(* the heartbeat thread is scheduled again and again *)
SyncSpec ==
    /\ SyncInit
    /\ [][SyncNext]_vars
    /\ WF_vars(SendHeartbeat)
    /\ WF_vars(HeartbeatExit)
    /\ WF_vars(HeartbeatWake)

(* ------------------------------------------------------------------ *)
(* Claims about the coordinator                                        *)
(* ------------------------------------------------------------------ *)

(* time since the command was issued *)
Elapsed(c) == now - pending_commands[c].timestamp

(* C2: a stored command's expected_clients is the size of the membership
   table at the moment it was stored, and no later step (heartbeat, sweep,
   ack, reaper pass, another request) changes it while the command is in
   the table. *)
C2_ExpectedClientsFixed ==
    [][\A c \in DOMAIN pending_commands' :
          IF c \in DOMAIN pending_commands
          THEN pending_commands'[c].expected_clients
                   = pending_commands[c].expected_clients
          ELSE pending_commands'[c].expected_clients
                   = Cardinality(DOMAIN clients_last_seen)]_vars

(* C2 witness: a command with an ack ingested whose expected_clients differs
   from the size the membership table has by now *)
C2_Witness ==
    \E c \in DOMAIN pending_commands :
        /\ pending_commands[c].expected_clients # Cardinality(DOMAIN clients_last_seen)
        /\ DOMAIN pending_commands[c].acks # {}

(* C3: from one state to the next, the total_responses get_command_status
   reports for a command that stays in the table never decreases. *)
C3_TotalResponsesMonotonic ==
    [][\A c \in (DOMAIN pending_commands) \cap (DOMAIN pending_commands') :
          GetCommandStatus(c)'.total_responses
              >= GetCommandStatus(c).total_responses]_vars

(* C3 witness: both nodes have acked, one of them with error *)
C3_Witness ==
    \E c \in DOMAIN pending_commands :
        /\ GetCommandStatus(c).total_responses = 2
        /\ GetCommandStatus(c).error_count = 1

(* the counts of a status *)
Counts(st) == <<st.success_count, st.error_count, st.total_responses>>

(* C4: an ack delivered to a command that already holds the same node's ack
   with the same status (the same message, delivered again) leaves
   success_count, error_count and total_responses as they were, and
   total_responses is always the number of distinct nodes whose ack was
   ingested. The handler reads the first three fields of a payload only, so
   the three-field payload stands for every payload with those fields. *)
C4_AckIdempotent ==
    /\ [][\A c \in DOMAIN pending_commands, n \in CLIENT_IDS :
             (/\ n \in DOMAIN pending_commands[c].acks
              /\ HandleAcknowledgment(<<n, c, pending_commands[c].acks[n].status>>))
             => Counts(GetCommandStatus(c))' = Counts(GetCommandStatus(c))]_vars
    /\ [](\A c \in DOMAIN pending_commands :
             GetCommandStatus(c).total_responses = Cardinality(ack_senders[c]))

(* C4 witness: a node's error ack is stored and the other node's is not, so
   the same error ack can arrive again *)
C4_Witness ==
    \E c \in DOMAIN pending_commands :
        /\ ack_senders[c] = {"pi1"}
        /\ pending_commands[c].acks["pi1"].status = "error"

(* C5: completed is reported exactly when as many nodes have acked as were
   expected or more than ACK_TIMEOUT has passed since issue; and when exactly
   the nodes counted at issue have all acked success, the status is
   completed with success_count = total_responses = expected_clients and
   error_count = 0. *)
C5_CompletedRule ==
    \A c \in DOMAIN pending_commands :
        LET st == GetCommandStatus(c) IN
        /\ st.completed <=>
               (Cardinality(ack_senders[c]) >= Cardinality(issued_to[c])
                \/ Elapsed(c) > ACK_TIMEOUT)
        /\ (/\ ack_senders[c] = issued_to[c]
            /\ \A n \in issued_to[c] : pending_commands[c].acks[n].status = "success")
           => /\ st.completed
              /\ st.success_count = st.expected_clients
              /\ st.total_responses = st.expected_clients
              /\ st.error_count = 0

(* C5 witness: two nodes expected, both acked success before the timeout *)
C5_Witness ==
    \E c \in DOMAIN pending_commands :
        /\ Elapsed(c) <= ACK_TIMEOUT
        /\ GetCommandStatus(c).completed
        /\ GetCommandStatus(c).expected_clients = 2
        /\ GetCommandStatus(c).success_count = 2

(* C6: once more than ACK_TIMEOUT has passed since issue, the status of a
   command still in the table is completed, with total_responses the number
   of distinct nodes that acked and expected_clients the count at issue. *)
C6_BoundedWait ==
    \A c \in DOMAIN pending_commands :
        Elapsed(c) > ACK_TIMEOUT =>
            /\ GetCommandStatus(c).completed
            /\ GetCommandStatus(c).total_responses = Cardinality(ack_senders[c])
            /\ GetCommandStatus(c).expected_clients = Cardinality(issued_to[c])

(* C6 witness: two nodes expected, one acked, the timeout has passed *)
C6_Witness ==
    \E c \in DOMAIN pending_commands :
        /\ Elapsed(c) > ACK_TIMEOUT
        /\ GetCommandStatus(c).expected_clients = 2
        /\ GetCommandStatus(c).total_responses = 1
        /\ GetCommandStatus(c).completed

(* C7: a request whose index is not in 0 <= index < NumVideos is answered
   "Invalid video index" at once; the step adds no command and publishes
   nothing, and no command in the table carries such an index. *)
C7_InvalidIndexRejected ==
    [][/\ \A i \in -1..NumVideos :
             (~(0 <= i /\ i < NumVideos) /\ ApiPlay(i))
             => /\ api'.pc = "done"
                /\ api'.response = "Invalid video index"
                /\ pending_commands' = pending_commands
                /\ play_published' = play_published
                /\ retained' = retained
       /\ \A c \in DOMAIN pending_commands' :
             /\ 0 <= pending_commands'[c].video_index
             /\ pending_commands'[c].video_index < NumVideos
      ]_vars

(* C7 witness: the request with index -1 has been answered *)
C7_Witness ==
    /\ api.pc = "done"
    /\ api.video_index = -1
    /\ api.response = "Invalid video index"

(* the nodes whose last heartbeat is at most HEARTBEAT_TIMEOUT old *)
ActiveClients ==
    {c \in DOMAIN clients_last_seen : now - clients_last_seen[c] <= HEARTBEAT_TIMEOUT}

(* C8: a request with a valid index made when no node is active is answered
   "No clients connected" and goes no further. *)
C8_NoReceivers ==
    [][\A i \in -1..NumVideos :
          (0 <= i /\ i < NumVideos /\ ActiveClients = {} /\ ApiPlay(i))
          => (api'.pc = "done" /\ api'.response = "No clients connected")]_vars

(* C9: when a request is answered with a failure, the command table holds
   no record of it. *)
C9_FailedDispatchLeavesNoCommand ==
    (api.pc = "done" /\ api.response # "success")
        => api.command_id \notin DOMAIN pending_commands

(* C10: a request that reached the publish is answered with its command id
   exactly when one of the attempts of the live publish reported success;
   when all of them failed, no retained copy of the command was published. *)
C10_IdIffPublished ==
    (api.pc = "done" /\ api.command_id # NoCommand) =>
        /\ (api.response = "success")
               <=> (\E a \in 1..MAX_RETRY_ATTEMPTS : api.rcs[a])
        /\ (\A a \in 1..MAX_RETRY_ATTEMPTS : ~api.rcs[a])
               => /\ api.response = "Failed to send command"
                  /\ play_published[api.command_id].retain = 0
                  /\ (retained = <<>> \/ retained[3] # api.command_id)

(* C10 witness: every attempt failed and the request was answered so *)
C10_Witness ==
    /\ api.pc = "done"
    /\ api.command_id # NoCommand
    /\ \A a \in 1..MAX_RETRY_ATTEMPTS : ~api.rcs[a]
    /\ api.response = "Failed to send command"

(* C14: the count /api/clients/count reports, and the expected_clients of
   a command stored in this step, is the number of nodes whose last
   heartbeat is at most HEARTBEAT_TIMEOUT old. *)
C14_CountIsActiveNodes ==
    [][/\ ApiClientsCount' = Cardinality(ActiveClients')
       /\ \A c \in (DOMAIN pending_commands') \ (DOMAIN pending_commands) :
             pending_commands'[c].expected_clients = Cardinality(ActiveClients)]_vars

(* an ack payload handle_acknowledgment has nothing to store for: fewer than
   three fields, or a command id that is not in the table *)
UnknownAck(parts) == Len(parts) < 3 \/ parts[2] \notin DOMAIN pending_commands

(* C15: handling an ack with fewer than three fields, or with a command id
   that is not in the command table, leaves the command table as it was: no
   command is created, and the status of that id is not-found after the step
   as before. *)
C15_UnknownAckIgnored ==
    [][\A parts \in AckPayloads :
          (UnknownAck(parts) /\ HandleAcknowledgment(parts))
          => /\ pending_commands' = pending_commands
             /\ (Len(parts) >= 2 => ~GetCommandStatus(parts[2])'.found)]_vars

(* C15 witness: an ack has named a command after it was reaped, and the
   command is still not in the table *)
C15_Witness ==
    \E c \in late_acks : ~GetCommandStatus(c).found

(* C17 as stated: a request answered with a command id has published the
   command message at least MAX_RETRY_ATTEMPTS (3) times, the retained copy
   not counted. *)
C17_PublishedThreeTimes ==
    (api.pc = "done" /\ api.response = "success")
        => play_published[api.command_id].live >= MAX_RETRY_ATTEMPTS

(* C17 amended: a request answered with a command id has published the
   command message exactly once, the retained copy not counted: the one
   attempt, of at most MAX_RETRY_ATTEMPTS, that reported success. *)
C17_PublishedOnce ==
    (api.pc = "done" /\ api.response = "success")
        => /\ play_published[api.command_id].live = 1
           /\ \E a \in 1..MAX_RETRY_ATTEMPTS : api.rcs[a]

(* C17 witness: the first two attempts failed, the third succeeded, and the
   request was answered with the command id *)
C17_Witness ==
    /\ api.pc = "done"
    /\ api.response = "success"
    /\ api.rcs = <<FALSE, FALSE, TRUE>>
    /\ play_published[api.command_id].live = 1

(* C18: when no request is being served and no clear_retained thread is
   left, the broker holds no retained command message. *)
C18_RetainedCleared ==
    (api.pc = "idle" /\ clear_threads = {}) => retained = <<>>

(* C19: a pass of cleanup_old_commands removes exactly the commands issued
   more than 2 * ACK_TIMEOUT ago and leaves the records of the others as
   they were; and no command stays in the table longer than 3 * ACK_TIMEOUT
   after its issue. *)
C19_ReaperPass ==
    /\ [][(commands_cleanup_at' # commands_cleanup_at)
            => /\ DOMAIN pending_commands' =
                      {c \in DOMAIN pending_commands : Elapsed(c) <= 2 * ACK_TIMEOUT}
               /\ \A c \in DOMAIN pending_commands' :
                      pending_commands'[c] = pending_commands[c]]_vars
    /\ [](\A c \in DOMAIN pending_commands : Elapsed(c) <= 3 * ACK_TIMEOUT)

(* C19 witness: a pass has run on a command with an ack that was issued
   exactly 2 * ACK_TIMEOUT before, and has left it in the table *)
C19_Witness ==
    \E c \in DOMAIN pending_commands :
        /\ Elapsed(c) = 2 * ACK_TIMEOUT
        /\ commands_cleanup_at > now
        /\ DOMAIN pending_commands[c].acks # {}

(* C20 as stated: a pass of the sweep is followed by the next one
   HEARTBEAT_TIMEOUT / 2 later, and no node is in the membership table more
   than HEARTBEAT_TIMEOUT + HEARTBEAT_TIMEOUT / 2 after its last heartbeat. *)
C20_SweepEveryHalfTimeout ==
    /\ [][(clients_cleanup_at' # clients_cleanup_at)
            => clients_cleanup_at' = now + HEARTBEAT_TIMEOUT \div 2]_vars
    /\ [](\A c \in DOMAIN clients_last_seen :
             now - clients_last_seen[c]
                 <= HEARTBEAT_TIMEOUT + HEARTBEAT_TIMEOUT \div 2)

(* C20 amended: a pass of the sweep is followed by the next one
   HEARTBEAT_TIMEOUT later; no node is in the membership table more than
   2 * HEARTBEAT_TIMEOUT after its last heartbeat; and the nodes counted for
   a command stored in this step are nodes of the table, so none of them is
   older than that. *)
C20_SweepEveryTimeout ==
    /\ [][/\ (clients_cleanup_at' # clients_cleanup_at)
               => clients_cleanup_at' = now + HEARTBEAT_TIMEOUT
           /\ \A c \in (DOMAIN pending_commands') \ (DOMAIN pending_commands) :
                  /\ pending_commands'[c].expected_clients = Cardinality(issued_to'[c])
                  /\ \A n \in issued_to'[c] :
                         /\ n \in DOMAIN clients_last_seen
                         /\ now - clients_last_seen[n] <= 2 * HEARTBEAT_TIMEOUT]_vars
    /\ [](\A c \in DOMAIN clients_last_seen :
             now - clients_last_seen[c] <= 2 * HEARTBEAT_TIMEOUT)

(* C20 witness: a node whose last heartbeat is 2 * HEARTBEAT_TIMEOUT old has
   been removed by the sweep that found it, later than HEARTBEAT_TIMEOUT +
   HEARTBEAT_TIMEOUT / 2 after the heartbeat, while the other node stays *)
C20_Witness ==
    /\ now = 2 * HEARTBEAT_TIMEOUT
    /\ clients_cleanup_at > now
    /\ DOMAIN clients_last_seen = {"pi2"}
    /\ \E c \in DOMAIN issued_to : issued_to[c] = {"pi1", "pi2"}

(* C21: under every interleaving of handle_heartbeat with a pass of
   cleanup_inactive_clients, a node that leaves the membership table in a
   step was last seen more than HEARTBEAT_TIMEOUT before, by the table as
   it is at that step; and no pass of the sweep fails. *)
C21_SweepExclusive ==
    /\ [][\A c \in DOMAIN clients_last_seen :
             c \notin DOMAIN clients_last_seen'
             => now - clients_last_seen[c] > HEARTBEAT_TIMEOUT]_vars
    /\ [](sweep.pc # "failed")

(* C22: the command table does not change while get_command_status holds
   command_lock, and the status the call returns is the status of the table
   as it is at the return: its success_count and error_count, read earlier
   in the call, add up to its total_responses, the number of nodes whose ack
   was ingested. *)
C22_StatusNeverTorn ==
    [][/\ command_lock = "status" => pending_commands' = pending_commands
       /\ (status_query.pc = "total_responses" /\ status_query'.pc = "done")
          => /\ status_query'.result = GetCommandStatus(status_query.command_id)'
             /\ status_query'.result.success_count + status_query'.result.error_count
                    = status_query'.result.total_responses
             /\ status_query'.result.total_responses
                    = Cardinality(ack_senders'[status_query.command_id])]_vars

(* C22 witness: a status with one response was returned, and the ack of
   the other node has been ingested since *)
C22_Witness ==
    /\ status_query.pc = "done"
    /\ status_query.result.found
    /\ status_query.result.total_responses = 1
    /\ Cardinality(DOMAIN pending_commands[status_query.command_id].acks) = 2

(* where a command is in its life, by what get_command_status returns for
   it: 0 not stored yet, 1 stored with completed = False, 2 stored with
   completed = True, 3 reaped (None again) *)
StatusPhase(command_id) ==
    IF command_id \in DOMAIN pending_commands
    THEN IF GetCommandStatus(command_id).completed THEN 2 ELSE 1
    ELSE IF command_id \in DOMAIN play_published THEN 3 ELSE 0

(* C31: what get_command_status returns for a command goes through
   completed = False, completed = True and not found in that order: no step
   takes a command back (completed does not revert, a reaped command is not
   found again), and no step reaps a command that still reports
   completed = False. *)
C31_StatusOrder ==
    [][\A command_id \in CommandIds :
          /\ StatusPhase(command_id)' >= StatusPhase(command_id)
          /\ ~(StatusPhase(command_id) = 1 /\ StatusPhase(command_id)' = 3)]_vars

(* C31 witness: a status query has returned None for a command that was
   stored and has been reaped *)
C31_Witness ==
    /\ status_query.pc = "done"
    /\ status_query.command_id \in ReapedCommands
    /\ ~status_query.result.found
    /\ StatusPhase(status_query.command_id) = 3

(* C32: every command in the table has expected_clients >= 1, and a
   command with no response is not reported completed at the time it was
   issued. *)
C32_ExpectedAtLeastOne ==
    \A command_id \in DOMAIN pending_commands :
        /\ pending_commands[command_id].expected_clients >= 1
        /\ (/\ now = pending_commands[command_id].timestamp
            /\ GetCommandStatus(command_id).total_responses = 0)
           => ~GetCommandStatus(command_id).completed

(* C33: for every stored command the success and error counts of its
   status add up to its total responses, and every recorded ack has the
   status success or error. *)
C33_CountsAddUp ==
    \A command_id \in DOMAIN pending_commands :
        /\ GetCommandStatus(command_id).success_count
               + GetCommandStatus(command_id).error_count
           = GetCommandStatus(command_id).total_responses
        /\ \A k \in DOMAIN pending_commands[command_id].acks :
               pending_commands[command_id].acks[k].status \in ACK_STATUSES

(* the retained copy of the command of a clear_retained thread was
   published less than CLEAR_RETAINED_DELAY ago, and no dispatch has
   published a retained copy at the same time or later *)
InPersistWindow(th) ==
    /\ play_published[th.command_id].retain > 0
    /\ now < th.wake_at
    /\ \A o \in clear_threads \ {th} : o.wake_at < th.wake_at

(* C12: a node that subscribes while the most recently dispatched command is
   within CLEAR_RETAINED_DELAY of its retained publish receives that command
   and starts a play_video thread for it, also when the clear_retained
   thread of an earlier dispatch is still running. *)
C12_LateSubscriberReceives ==
    [][\A t \in PLAY_THREADS, th \in clear_threads :
          (InPersistWindow(th) /\ Subscribe(t))
          => /\ play_threads'[t].pc = "switch_to_manual"
             /\ play_threads'[t].command_id = th.command_id]_vars

(* ------------------------------------------------------------------ *)
(* Claims about the node                                               *)
(* ------------------------------------------------------------------ *)

(* the step in which the play_video thread t sends its acknowledgment *)
SendsAck(t) ==
    /\ play_threads[t].pc # "none"
    /\ play_threads'[t].acked # "none"
    /\ play_threads'[t].acked # play_threads[t].acked

(* C11: once a play command has arrived while the node was in manual mode
   for a different command, the handler of that earlier command sends no
   acknowledgment any more. *)
C11_SupersededSendsNoAck ==
    [][\A t \in PLAY_THREADS :
          SendsAck(t) => ~play_threads[t].superseded]_vars

(* the positions of play_video between the mode switch and the
   acknowledgment *)
BeforeAck == {"validate", "set_media", "start_wait", "verify"}

(* C13: a play_video thread that leaves the part before its acknowledgment
   other than by reporting success (index out of range, file missing, start
   attempts exhausted, not playing at the final verification, exception)
   has sent an error acknowledgment with its own command id and goes on to
   switch_to_loop_mode; and when a thread that acknowledged an error
   returns, manual_mode is false and the loop pause event is clear. *)
C13_FailureAckedAndRecovered ==
    [][\A t \in PLAY_THREADS :
          /\ (/\ play_threads[t].pc \in BeforeAck
              /\ play_threads'[t].pc \notin BeforeAck \cup {"monitor"})
             => /\ play_threads'[t].acked = "error"
                /\ play_threads'[t].command_id = play_threads[t].command_id
                /\ play_threads'[t].pc = "switch_to_loop"
          /\ (/\ play_threads[t].pc # "none"
              /\ play_threads'[t].pc = "none"
              /\ "error" \in {play_threads[t].acked, play_threads'[t].acked})
             => (~manual_mode' /\ ~loop_pause_event')]_vars

(* C13 witness: a thread has sent its error acknowledgment and is inside
   switch_to_loop_mode, the node still in manual mode *)
C13_Witness ==
    \E t \in PLAY_THREADS :
        /\ play_threads[t].pc = "loop_wait"
        /\ play_threads[t].acked = "error"
        /\ manual_mode

(* C16: when the thread of a second delivery of a command reaches
   start_playback_on_player while the manual player is playing the media of
   that same command, its step leaves the manual player playing: the
   duplicate neither stops nor restarts the playback. *)
C16_DuplicateDoesNotRestart ==
    [][\A t \in PLAY_THREADS :
          (/\ play_threads[t].pc = "set_media"
           /\ play_threads[t].attempt = 0
           /\ manual_media = play_threads[t].command_id
           /\ IsPlaying("manual")
           /\ play_threads'[t] # play_threads[t])
          => IsPlaying("manual")']_vars

(* C23: the loop thread performs no set_media / play() on the loop player
   in a state where manual_mode is set. *)
C23_NoLoopStartInManual ==
    [][(\E result \in {0, -1} : LoopStartSet(result)) => ~manual_mode]_vars

(* C24: when switch_to_manual_mode returns to play_video with the mode
   marked manual, the loop player is not playing. *)
C24_LoopStoppedAtSwitch ==
    [][\A t \in PLAY_THREADS :
          (/\ play_threads[t].pc \in {"switch_to_manual", "manual_wait"}
           /\ play_threads'[t].pc = "validate"
           /\ manual_mode')
          => ~IsPlaying("loop")']_vars

(* C25: a play_video thread sends a success acknowledgment only at the
   final verification with the manual player playing, and goes on to
   switch_to_loop_mode whenever it sends an error acknowledgment; it sends
   no acknowledgment after its first, has sent one when it returns, and
   its command id never changes. *)
C25_OneAckPerInvocation ==
    [][\A t \in PLAY_THREADS :
          /\ SendsAck(t) => play_threads[t].acked = "none"
          /\ (SendsAck(t) /\ play_threads'[t].acked = "success")
             => (play_threads[t].pc = "verify" /\ IsPlaying("manual"))
          /\ (SendsAck(t) /\ play_threads'[t].acked = "error")
             => play_threads'[t].pc = "switch_to_loop"
          /\ (play_threads[t].pc # "none" /\ play_threads'[t].pc = "none")
             => play_threads[t].acked # "none"
          /\ (play_threads[t].pc # "none" /\ play_threads'[t].pc # "none")
             => play_threads'[t].command_id = play_threads[t].command_id]_vars

(* the manual player has stopped under a play_video thread that monitors
   it in manual mode *)
ManualEnded ==
    /\ manual_mode
    /\ ~IsPlaying("manual")
    /\ \E t \in PLAY_THREADS : play_threads[t].pc = "monitor"

(* the node is back in loop mode: the manual player does not play, the
   mode and the pause event are clear, and the loop thread is in its
   playback of index 0 *)
BackToLooping ==
    /\ ~manual_mode
    /\ ~loop_pause_event
    /\ ~IsPlaying("manual")
    /\ loop_thread.pc \in {"set_media", "start_wait", "monitor"}

(* C26: in a run in which from some time on no further command arrives,
   whenever the manual player stops playing in manual mode the node is
   back in loop mode at some later time: the manual player not playing,
   manual_mode and the pause event clear, and the loop thread (whose video
   of index 0 is present) in start_playback_on_player or past it. *)
C26_ReturnsToLooping ==
    <>[][~(\E t \in PLAY_THREADS, parts \in PlayCommands : OnMessage(t, parts))]_vars
        => (ManualEnded ~> BackToLooping)

(* C26 witness: the manual player has held the media of a command, every
   play_video thread has returned, and the loop thread is monitoring its
   playback in loop mode *)
C26_Witness ==
    /\ BackToLooping
    /\ manual_media # NoCommand
    /\ \A t \in PLAY_THREADS : play_threads[t].pc = "none"
    /\ loop_thread.pc = "monitor"
    /\ IsPlaying("loop")

(* the play_video thread t is in a blocking wait: the stop wait of a mode
   switch with the player still playing, the start wait of
   start_playback_on_player, or the sleep until start_time *)
InBlockingWait(t) ==
    \/ (play_threads[t].pc = "manual_wait" /\ IsPlaying("loop"))
    \/ (play_threads[t].pc = "loop_wait" /\ IsPlaying("manual"))
    \/ play_threads[t].pc \in {"start_wait", "verify"}

(* C27: the thread that holds playback_control_lock is not in a blocking
   wait. *)
C27_NoWaitUnderLock ==
    \A t \in PLAY_THREADS : playback_control_lock = t => ~InBlockingWait(t)

(* the play_video thread t is inside start_playback_on_player *)
InStart(t) == play_threads[t].pc \in {"set_media", "start_wait"}

(* how far start_playback_on_player of thread t has come: two steps for
   each attempt, play() and the wait for the engine *)
StartRank(t) ==
    2 * play_threads[t].attempt
    + (IF play_threads[t].pc = "start_wait" THEN 1 ELSE 0)

(* the play_video thread t has acknowledged an error and is on its way to
   switch_to_loop_mode *)
StartFailed(t) ==
    /\ play_threads[t].pc = "switch_to_loop"
    /\ play_threads[t].acked = "error"

(* C30: start_playback_on_player on the manual player ends after at most
   MAX_ATTEMPTS attempts: inside it the attempt number stays below
   MAX_ATTEMPTS, a step is always possible (no wait is unbounded), and every
   step either advances (the wait of the same attempt, or a later attempt)
   or returns; it returns True only when the manual player reports playing,
   and False only in the last attempt, and then play_video acknowledges an
   error and goes to switch_to_loop_mode; and once no further command
   arrives the node is back in loop mode at some later time. *)
C30_BoundedStart ==
    /\ [](\A t \in PLAY_THREADS :
            InStart(t)
            => /\ play_threads[t].attempt < MAX_ATTEMPTS
               /\ ENABLED (\/ \E result \in {0, -1} : PlayStartSet(t, result)
                           \/ PlayStartStarted(t)
                           \/ PlayStartTimeout(t)))
    /\ [][\A t \in PLAY_THREADS :
            (/\ InStart(t)
             /\ <<play_threads'[t].pc, play_threads'[t].attempt>>
                # <<play_threads[t].pc, play_threads[t].attempt>>)
            => \/ InStart(t)' /\ StartRank(t)' > StartRank(t)
               \/ /\ play_threads'[t].pc = "verify"
                  /\ play_threads[t].pc = "start_wait"
                  /\ IsPlaying("manual")
               \/ /\ StartFailed(t)'
                  /\ play_threads[t].attempt = MAX_ATTEMPTS - 1]_vars
    /\ <>[][~(\E t \in PLAY_THREADS, parts \in PlayCommands : OnMessage(t, parts))]_vars
           => ((\E t \in PLAY_THREADS : StartFailed(t)) ~> BackToLooping)

(* C30 witness: the third attempt of a play_video thread is waiting for a
   manual player that does not report playing *)
C30_Witness ==
    \E t \in PLAY_THREADS :
        /\ play_threads[t].pc = "start_wait"
        /\ play_threads[t].attempt = MAX_ATTEMPTS - 1
        /\ ~IsPlaying("manual")
        /\ play_threads[t].acked = "none"

(* C34: the manual player is playing only while the node is in manual
   mode. *)
C34_ManualOnlyInManualMode == IsPlaying("manual") => manual_mode

(* C35: whenever playback_control_lock is free, manual_mode, the pause
   event of the loop and active_player being the manual player agree. *)
C35_IndicatorsAgree ==
    playback_control_lock = "free"
    => /\ manual_mode <=> loop_pause_event
       /\ manual_mode <=> (active_player = "manual")

(* C35 witness: a mode switch has completed and released the lock with the
   three indicators set *)
C35_Witness ==
    /\ playback_control_lock = "free"
    /\ manual_mode
    /\ loop_pause_event
    /\ active_player = "manual"
    /\ \E t \in PLAY_THREADS : play_threads[t].pc = "monitor"

(* the locks are taken in one order and no holder is stuck: whoever holds
   playback_control_lock can take its next step, get_status holds
   state_lock before it takes playback_control_lock, and state_lock is held
   by get_status alone *)
LockOrderKept ==
    /\ state_lock \in {"free", "heartbeat"}
    /\ playback_control_lock = "heartbeat"
       => (state_lock = "heartbeat" /\ ENABLED GetStatusReturn)
    /\ \A t \in PLAY_THREADS :
          playback_control_lock = t
          => ENABLED (SwitchToManualFinish(t) \/ SwitchToLoopFinish(t))
    /\ (state_lock = "heartbeat" /\ playback_control_lock = "free")
       => ENABLED GetStatusInner

(* C36: the node does not deadlock on state_lock and
   playback_control_lock: the locks are taken in one order with no holder
   stuck, and a thread that requests a lock gets it at some later time:
   get_status its second lock, set_state a free state_lock, a mode switch and
   is_in_manual_mode the playback_control_lock. *)
C36_NoDeadlock ==
    /\ []LockOrderKept
    /\ (status_call.pc = "state_lock") ~> (status_call.pc = "both")
    /\ (state_lock # "free") ~> (state_lock = "free")
    /\ (\E t \in PLAY_THREADS : play_threads[t].pc = "switch_to_manual")
           ~> (\E t \in PLAY_THREADS : playback_control_lock = t
                                        \/ play_threads[t].pc = "validate")
    /\ (loop_thread.pc = "manual_check") ~> (loop_thread.pc # "manual_check")

(* C36 witness: get_status holds state_lock and waits for
   playback_control_lock, which a play_video thread holds in its switch to
   manual mode while the loop thread waits for it in is_in_manual_mode *)
C36_Witness ==
    /\ status_call.pc = "state_lock"
    /\ state_lock = "heartbeat"
    /\ playback_control_lock \in PLAY_THREADS
    /\ play_threads[playback_control_lock].pc = "manual_wait"
    /\ loop_thread.pc = "manual_check"

(* the clock offset as the claims define it: valid once a response with
   the coordinator's time T has been delivered, and then T minus the
   node's time at that delivery *)
OffsetValid == time_response # <<>>

ClaimedOffset == time_response[1] - time_response[2]

(* the wait the claims ask for *)
ClaimedWait(start_time) ==
    IF OffsetValid THEN start_time - ClaimedOffset - NodeTime
    ELSE start_time - NodeTime

(* C28: the wait play_video computes at its synchronization step is
   start_time - offset - now when the clock offset is valid and
   start_time - now when it is not, and the thread sleeps exactly when that
   wait is positive; with a valid offset and start_time = now + offset + 2
   the wait is 2. *)
C28_WaitUsesOffset ==
    [][(sync_wait.pc = "idle" /\ sync_wait'.pc = "computed")
       => /\ sync_wait'.wait_seconds = ClaimedWait(sync_wait'.start_time)
          /\ sync_wait'.sleeps = (ClaimedWait(sync_wait'.start_time) > 0)
          /\ (OffsetValid /\ sync_wait'.start_time = NodeTime + ClaimedOffset + 2)
             => sync_wait'.wait_seconds = 2]_vars

(* C37: at most one send_heartbeat thread is running for the node at any
   time, and a node that stays connected sends heartbeats again and again. *)
C37_OneHeartbeatThread ==
    /\ [](HeartbeatCount <= 1)
    /\ <>[]connected => []<><<SendHeartbeat>>_vars

(* the topic of the time-sync request *)
TIME_SYNC_REQUEST == "time-sync-request"

(* C29: a connected node that has had no response publishes a time-sync
   request at some later time, unless it is answered or disconnected
   first. *)
C29_RequestsUntilAnswered ==
    [](connected => <>(\/ TIME_SYNC_REQUEST \in node_published
                       \/ OffsetValid
                       \/ ~connected))

(* C1: the loop player and the manual player are never both playing. *)
C1_NeverBothPlaying == ~(IsPlaying("loop") /\ IsPlaying("manual"))

====
